---- MODULE Spec2Model ----
(***************************************************************************)
(* Authentication and session lifecycle of the iron-track backend:         *)
(* issuance, verification, rotation and revocation of the access/refresh   *)
(* token pair, the Redis revocation ledger, the cached identity projection *)
(* and the guards in front of the protected endpoints.                     *)
(*                                                                         *)
(* Every HTTP request runs in a slot; one action is one stretch of the     *)
(* coroutine between two await points that touch shared state (Redis, the  *)
(* committed user table).  The SQLAlchemy session is request scoped and    *)
(* committed by the autocommit middleware after the handler has returned;  *)
(* Starlette runs background tasks after the response has been sent.       *)
(* The Redis client is the process-wide one stored on app.state; time is   *)
(* counted in seconds.  A Redis key "a:b:c" is the tuple <<"a","b","c">>.  *)
(***************************************************************************)
EXTENDS Integers, Sequences, FiniteSets, TLC

\* ---------------------------------------------------------------- bounds
MaxRequests == 4
MaxTicks == 1
MaxIssued == 3
MaxLateRequests == 5
MaxWaits == 3

Slots == {1, 2}
UserIds == {"admin", "su", "u1"}
\* Primary keys the table hands out to accounts created later.
NewIds == {"n1", "n2"}
\* Two browsers, which follow Set-Cookie, and a holder of the first cookie pair of
\* u1, which keeps presenting it whatever the responses say.
Clients == {"su", "u1", "old"}
Browsers == {"su", "u1"}
Passwords == {"pw1", "pw2"}
JtiNames == <<"j01", "j02", "j03", "j04", "j05", "j06", "j07", "j08", "j09", "j10", "j11", "j12">>
RefreshDaysChoices == {30, 60}
\* Settings the token codec is exercised with on its own.
CodecMinutesChoices == {0, 15, 30}
CodecDaysChoices == {0, 1, 30}
TickSteps == {30 * 60, 31 * 24 * 60 * 60}
WaitSteps == {15 * 60}

\* ------------------------------------------------------ program constants
DEFAULT_USER_ROLE_SLUG == "application-access"
SUPERUSER_ROLE_SLUG == "superuser"
FITNESS_TRAINER_ROLE_SLUG == "fitness-trainer"
USER_AUTH_CACHE_TTL == 30 * 60
DEFAULT_ADMIN_EMAIL == "system.admin@example.com"
ACCESS_TOKEN_MAX_AGE == 30 * 60
REFRESH_TOKEN_MAX_AGE == 30 * 24 * 60 * 60
FASTAPI_CACHE_PREFIX == "fastapi-cache"
USER_AUTH_CACHE_PREFIX == "user_auth"

VARIABLES
    now,        \* wall clock, seconds
    ticks,      \* number of clock advances so far
    settings,   \* settings.jwt, read once from the environment
    users,      \* committed rows of the user table
    redis,      \* live keys of the key-value store -> [value, expire_at]
    issued,     \* every token signed so far (what a client can present)
    nextJti,    \* position of the next uuid4 in JtiNames
    nreq,       \* requests started so far
    jar,        \* the cookies each client holds
    hist,       \* history: what has happened to the tokens signed so far
    req         \* the request running in each slot

vars == <<now, ticks, settings, users, redis, issued, nextJti, nreq, jar, hist, req>>

\* ------------------------------------------------------------ value shapes
NoToken == [sub |-> "none", jti |-> "none", iat |-> 0, exp |-> 0, kind |-> "none"]
NoAuth == [id |-> "none", email |-> "none", is_active |-> FALSE,
           is_superuser |-> FALSE, role_slug |-> "none"]
NoWrite == [field |-> "none", target |-> "none", flag |-> FALSE, text |-> "none",
            hash |-> "none"]
\* A response without content.
NoContent == [content |-> "none"]

EmailOf(u) == IF u = "admin" THEN "system.admin@example.com"
              ELSE IF u = "su" THEN "superuser@example.com" ELSE "user@example.com"
\* get_one_or_none(email=e): the id of the row with that email, "none" without one.
UserByEmail(e) == IF \E u \in DOMAIN users : users[u].exists /\ users[u].email = e
                  THEN CHOOSE u \in DOMAIN users : users[u].exists /\ users[u].email = e
                  ELSE "none"

IdleReq == [op |-> "idle", pc |-> "idle", client |-> "none",
            access |-> NoToken, refresh |-> NoToken,
            username |-> "none", password |-> "none", new_password |-> "none",
            target |-> "none", role |-> "none", set_active |-> FALSE, email |-> "none",
            payload |-> NoToken, refresh_jti |-> "none", user_auth |-> NoAuth,
            token_exists |-> FALSE, cache_hit |-> FALSE,
            status |-> 0, out_access |-> NoToken, out_refresh |-> NoToken,
            message |-> "none", body |-> NoContent, cleared |-> FALSE, bg |-> {},
            write |-> NoWrite,
            \* history of the request
            late |-> FALSE,          \* the refresh token had already bought a token pair
            was_revoked |-> FALSE,   \* add_token_to_blacklist had completed for its jti
            after_logout |-> FALSE,  \* the logout of the access token's session had completed
            after_pw |-> FALSE,      \* the refresh token predates a completed password update
            after_delete |-> FALSE,  \* the deletion of the token's subject had been committed
            entered |-> FALSE,       \* the handler body has started
            ran_inactive |-> FALSE,  \* the guard let it through while the row was inactive
            stale_left |-> FALSE,    \* the entry was still cached after the invalidation
            inv_calls |-> 0,         \* calls of invalidate_user_cache made for the request
            inv_id |-> "none",       \* the user_id the last of these calls was given
            fault |-> {},            \* the Redis calls of the request that raised
            steps |-> <<>>]          \* the calls made for the request so far, in order

\* ------------------------------------------------------------- token codec
\* encode_jwt: iat, exp and a fresh jti are added to the caller's payload; a zero
\* expire_timedelta is falsy, so the access lifetime is used instead.
encode_jwt(sub, kind, expire_timedelta, jti) ==
    LET lifetime == IF expire_timedelta # 0
                    THEN expire_timedelta
                    ELSE settings.ACCESS_TOKEN_EXPIRE_MINUTES * 60
    IN [sub |-> sub, jti |-> jti, iat |-> now, exp |-> now + lifetime, kind |-> kind]

create_access_token(user_id, jti) == encode_jwt(user_id, "access", 0, jti)

create_refresh_token(user_id, jti) ==
    encode_jwt(user_id, "refresh", settings.REFRESH_TOKEN_EXPIRE_DAYS * 24 * 60 * 60, jti)

\* get_payload_from_token: the signature verifies (the token was signed by this
\* process) and the essential exp claim is not in the past.
\* (Variant: the exp claim is not validated.)
get_payload_from_token_ok_noexp(tok) == tok \in issued
\* (Variant: a token whose session's refresh token is revoked is refused as well.)
get_payload_from_token_ok_session(tok) ==
    /\ tok \in issued
    /\ ~(tok.exp < now)
    /\ ~\E t \in issued : /\ t.sub = tok.sub /\ t.iat = tok.iat /\ t.kind = "refresh"
                          /\ <<"revoked", t.jti>> \in DOMAIN redis
get_payload_from_token_ok(tok) == tok \in issued /\ ~(tok.exp < now)

\* ------------------------------------------------------------------- Redis
Exists(r, k) == k \in DOMAIN r
Setex(r, k, ttl, v) ==
    [x \in DOMAIN r \cup {k} |-> IF x = k THEN [value |-> v, expire_at |-> now + ttl] ELSE r[x]]
Delete(r, k) == [x \in DOMAIN r \ {k} |-> r[x]]
\* (Variant: a key outlives its time to live.)
Expire_never(r, t) == r
Expire(r, t) == [x \in {k \in DOMAIN r : r[k].expire_at > t} |-> r[x]]

LedgerKey(jti) == <<"revoked", jti>>
\* (Variant: the key template names no subject.)
CacheKey_shared(sub) == <<"user_auth", "any">>
CacheKey(sub) == <<"user_auth", sub>>
InvalidateKey(user_id) == <<FASTAPI_CACHE_PREFIX, USER_AUTH_CACHE_PREFIX, user_id>>

\* (Variant: the SETEX is lost.)
add_token_to_blacklist_dropped(r, jti) == r
add_token_to_blacklist(r, jti) == Setex(r, LedgerKey(jti), REFRESH_TOKEN_MAX_AGE, "1")
\* (Variant: the ledger is an allowlist, a jti without a record is refused.)
is_token_in_blacklist_allowlist(r, jti) == ~Exists(r, LedgerKey(jti))
is_token_in_blacklist(r, jti) == Exists(r, LedgerKey(jti))
\* (Variant: the invalidation empties the database.)
invalidate_user_cache_flushdb(r, user_id) == <<>>
invalidate_user_cache(r, user_id) == Delete(r, InvalidateKey(user_id))

\* -------------------------------------------------------------- user store
to_schema_UserAuth(u) ==
    [id |-> u, email |-> users[u].email, is_active |-> users[u].is_active,
     is_superuser |-> users[u].is_superuser, role_slug |-> users[u].role_slug]

\* to_schema(db_obj, schema_type=User): the fields of the User struct, read from the row.
\* (Variant: every column of the row is copied.)
to_schema_User_raw(id, row) ==
    [id |-> id, email |-> row.email, is_active |-> row.is_active,
     is_superuser |-> row.is_superuser, role_name |-> row.role_slug,
     role_slug |-> row.role_slug, password |-> row.password]
to_schema_User(id, row) ==
    [id |-> id, email |-> row.email, is_active |-> row.is_active,
     is_superuser |-> row.is_superuser, role_name |-> row.role_slug,
     role_slug |-> row.role_slug]

\* A primary key without a row.
NoRow == [exists |-> FALSE, email |-> "none", is_active |-> FALSE, is_superuser |-> FALSE,
          role_slug |-> "none", password |-> "none"]

\* The rows present at start-up: the system administrator, a second superuser and
\* an ordinary account.
SeedRow(u) ==
    [exists |-> TRUE, email |-> EmailOf(u), is_active |-> TRUE, is_superuser |-> (u # "u1"),
     role_slug |-> IF u # "u1" THEN SUPERUSER_ROLE_SLUG ELSE DEFAULT_USER_ROLE_SLUG,
     password |-> "$argon2id$pw1"]

\* The process after start-up, whatever the settings: seeded users, empty Redis.
Boot ==
    /\ now = 0
    /\ ticks = 0
    /\ users = [u \in UserIds \cup NewIds |-> IF u \in UserIds THEN SeedRow(u) ELSE NoRow]
    /\ redis = <<>>
    /\ issued = {}
    /\ nextJti = 1
    /\ nreq = 0
    /\ jar = [c \in Clients |-> [access |-> NoToken, refresh |-> NoToken]]
    /\ hist = [consumed |-> {}, revoked |-> {}, logged_out |-> {}, pw_stale |-> {},
               promoted_at |-> -1]
    /\ req = [s \in Slots |-> IdleReq]

Init ==
    /\ settings \in [ACCESS_TOKEN_EXPIRE_MINUTES : {30}, REFRESH_TOKEN_EXPIRE_DAYS : RefreshDaysChoices]
    /\ Boot

\* A finished request leaves its slot before anything else happens.
Running == \A t \in Slots : req[t].pc # "done"

\* The clock advances between requests (a request takes no time on the scale of the
\* lifetimes involved); Redis drops the keys whose time to live has elapsed.
Tick ==
    /\ \A t \in Slots : req[t].pc = "idle"
    /\ ticks < MaxTicks
    /\ \E d \in TickSteps :
        /\ now' = now + d
        /\ redis' = Expire(redis, now + d)
    /\ ticks' = ticks + 1
    /\ UNCHANGED <<settings, users, issued, nextJti, nreq, jar, hist, req>>

\* ---------------------------------------------------------------- requests
FreeSlot(s) ==
    /\ Running
    /\ req[s].pc = "idle"
    /\ \A t \in Slots : t < s => req[t].pc # "idle"
    /\ nreq < MaxRequests

\* The request has made the named call.
Did(r, call) == [r EXCEPT !.steps = Append(@, call)]
Reject(r, code) == [r EXCEPT !.status = code, !.pc = "done"]
\* The exception handler answers {"detail": exc.message} with exc.status_code.
Raise(r, code, message) == [Reject(r, code) EXCEPT !.message = message]
FreshJti(k) == JtiNames[nextJti + k]
CanIssue == nextJti + 1 <= Len(JtiNames)

\* Set-Cookie and delete_cookie as the client sees them.
SetCookies(c, at, rt) ==
    [x \in Clients |->
        IF x = c \/ (x = "old" /\ c = "u1" /\ jar["old"].refresh = NoToken)
        THEN [access |-> at, refresh |-> rt]
        ELSE jar[x]]
ClearCookies(c) ==
    [x \in Clients |-> IF x = c /\ c \in Browsers
                       THEN [access |-> NoToken, refresh |-> NoToken] ELSE jar[x]]

\* verify_password: the Argon2 hash of a plaintext verifies that plaintext only.
get_password_hash(plain) == IF plain = "pw1" THEN "$argon2id$pw1" ELSE "$argon2id$pw2"
\* (Variant: every plaintext verifies.)
verify_password_any(plain, hashed) == TRUE
verify_password(plain, hashed) == get_password_hash(plain) = hashed

\* UserService.authenticate, services.py 71-97.
\* (Variant: the account's is_active flag is not consulted.)
authenticate_ok_any_status(username, password) ==
    LET u == UserByEmail(username)
    IN /\ u # "none"
       /\ users[u].exists
       /\ verify_password(password, users[u].password)
\* (Variant: the password is verified against the hash the row was created with.)
authenticate_ok_first_hash(username, password) ==
    LET u == UserByEmail(username)
    IN /\ u # "none"
       /\ users[u].exists
       /\ verify_password(password, SeedRow(u).password)
       /\ users[u].is_active
authenticate_ok(username, password) ==
    LET u == UserByEmail(username)
    IN /\ u # "none"
       /\ users[u].exists
       /\ verify_password(password, users[u].password)
       /\ users[u].is_active

\* The calls authenticate makes, services.py 84-96: the row is looked up, and `or`
\* evaluates verify_password only when a row was found.
authenticate_calls(username) ==
    IF UserByEmail(username) = "none"
    THEN <<"get_one_or_none">>
    ELSE <<"get_one_or_none", "verify_password">>

\* The message of the UnauthorizedException authenticate raises, services.py 90-96.
\* (Variant: a missing row gets a message of its own.)
authenticate_detail_enumerating(username) ==
    IF UserByEmail(username) = "none"
    THEN "User not found" ELSE "Invalid credentials or account is unavailable"
authenticate_detail(username) == "Invalid credentials or account is unavailable"

\* login_for_access_token, access.py 94-130, for the form a client submits.
LoginAs(s, c, username, pw) ==
    LET r0 == [IdleReq EXCEPT !.op = "login", !.client = c,
                              !.username = username, !.password = pw,
                              !.steps = authenticate_calls(username)]
        sub == UserByEmail(username)
        at == create_access_token(sub, FreshJti(0))
        rt == create_refresh_token(sub, FreshJti(1))
    IN IF authenticate_ok(r0.username, r0.password)
       THEN /\ req' = [req EXCEPT ![s] = [r0 EXCEPT !.status = 204, !.pc = "done",
                                                     !.out_access = at, !.out_refresh = rt]]
            /\ issued' = issued \cup {at, rt}
            /\ nextJti' = nextJti + 2
            /\ jar' = SetCookies(c, at, rt)
       ELSE /\ req' = [req EXCEPT ![s] = Raise(r0, 401, authenticate_detail(r0.username))]
            /\ UNCHANGED <<issued, nextJti, jar>>

\* POST login with the client's own email.
Login(s) ==
    /\ FreeSlot(s)
    /\ CanIssue
    /\ \E c \in Browsers, pw \in Passwords : LoginAs(s, c, EmailOf(c), pw)
    /\ nreq' = nreq + 1
    /\ UNCHANGED <<now, ticks, settings, users, redis, hist>>

\* JWTCookieSecurity.__call__ followed by get_payload_from_token: the cookie is read
\* and decoded before the first await of the dependency.
\* (Variant: a missing cookie is reported as a missing permission.)
Begin_forbidden(r0, tok, first) ==
    IF tok = NoToken THEN Raise(Did(r0, "extract"), 403, "Not authenticated")
    ELSE IF ~get_payload_from_token_ok(tok)
    THEN Raise(Did(Did(r0, "extract"), "decode"), 401, "Invalid or expired token")
    ELSE [Did(Did(r0, "extract"), "decode") EXCEPT !.payload = tok, !.pc = first]
Begin(r0, tok, first) ==
    IF tok = NoToken THEN Raise(Did(r0, "extract"), 401, "Not authenticated")
    ELSE IF ~get_payload_from_token_ok(tok)
    THEN Raise(Did(Did(r0, "extract"), "decode"), 401, "Invalid or expired token")
    ELSE [Did(Did(r0, "extract"), "decode") EXCEPT !.payload = tok, !.pc = first]

\* POST refresh: the request enters Authenticate.get_current_user_for_refresh.
StartRefresh(s) ==
    /\ FreeSlot(s)
    /\ \E c \in {"u1", "old"} :
        req' = [req EXCEPT ![s] =
                  Begin([IdleReq EXCEPT !.op = "refresh", !.client = c,
                                        !.access = jar[c].access,
                                        !.refresh = jar[c].refresh,
                                        !.late = jar[c].refresh.jti \in hist.consumed,
                                        !.was_revoked = jar[c].refresh.jti \in hist.revoked,
                                        !.after_pw = jar[c].refresh.jti \in hist.pw_stale],
                        jar[c].refresh, "blacklist")]
    /\ nreq' = nreq + 1
    /\ UNCHANGED <<now, ticks, settings, users, redis, issued, nextJti, jar, hist>>

\* GET profile: guarded by get_current_active_user.
StartProfile(s) ==
    /\ FreeSlot(s)
    /\ \E c \in {"u1", "old"} :
        req' = [req EXCEPT ![s] =
                  Begin([IdleReq EXCEPT !.op = "profile", !.client = c,
                                        !.access = jar[c].access,
                                        !.after_logout = jar[c].access.jti \in hist.logged_out],
                        jar[c].access, "cache_get")]
    /\ nreq' = nreq + 1
    /\ UNCHANGED <<now, ticks, settings, users, redis, issued, nextJti, jar, hist>>

\* POST logout: get_current_active_user, then get_refresh_jti.
StartLogout(s) ==
    /\ FreeSlot(s)
    /\ \E c \in {"u1"} :
        req' = [req EXCEPT ![s] =
                  Begin([IdleReq EXCEPT !.op = "logout", !.client = c,
                                        !.access = jar[c].access, !.refresh = jar[c].refresh],
                        jar[c].access, "cache_get")]
    /\ nreq' = nreq + 1
    /\ UNCHANGED <<now, ticks, settings, users, redis, issued, nextJti, jar, hist>>

\* PATCH password: guarded by get_current_active_user.
StartUpdatePassword(s) ==
    /\ FreeSlot(s)
    /\ \E c \in {"u1"}, cur \in Passwords, new \in Passwords :
        /\ cur # new
        /\ req' = [req EXCEPT ![s] =
                  Begin([IdleReq EXCEPT !.op = "update_pwd", !.client = c,
                                        !.access = jar[c].access,
                                        !.password = cur, !.new_password = new],
                        jar[c].access, "cache_get")]
    /\ nreq' = nreq + 1
    /\ UNCHANGED <<now, ticks, settings, users, redis, issued, nextJti, jar, hist>>

\* PATCH roles:assign: guarded by superuser_required.
StartAssignRole(s) ==
    /\ FreeSlot(s)
    /\ \E c \in {"su"}, u \in {"u1"}, slug \in {FITNESS_TRAINER_ROLE_SLUG} :
        req' = [req EXCEPT ![s] =
                  Begin([IdleReq EXCEPT !.op = "assign_role", !.client = c,
                                        !.access = jar[c].access,
                                        !.username = EmailOf(u), !.role = slug],
                        jar[c].access, "cache_get")]
    /\ nreq' = nreq + 1
    /\ UNCHANGED <<now, ticks, settings, users, redis, issued, nextJti, jar, hist>>

\* PATCH users:update with data.is_active set: guarded by superuser_required.
StartUpdateUser(s) ==
    /\ FreeSlot(s)
    /\ \E c \in {"su"}, u \in {"u1"}, active \in BOOLEAN :
        req' = [req EXCEPT ![s] =
                  Begin([IdleReq EXCEPT !.op = "update_user", !.client = c,
                                        !.access = jar[c].access,
                                        !.target = u, !.set_active = active],
                        jar[c].access, "cache_get")]
    /\ nreq' = nreq + 1
    /\ UNCHANGED <<now, ticks, settings, users, redis, issued, nextJti, jar, hist>>

\* PATCH roles:revoke: guarded by superuser_required.
StartRevokeRole(s) ==
    /\ FreeSlot(s)
    /\ \E c \in {"su"}, u \in {"u1"}, slug \in {FITNESS_TRAINER_ROLE_SLUG} :
        req' = [req EXCEPT ![s] =
                  Begin([IdleReq EXCEPT !.op = "revoke_role", !.client = c,
                                        !.access = jar[c].access,
                                        !.username = EmailOf(u), !.target = u, !.role = slug],
                        jar[c].access, "cache_get")]
    /\ nreq' = nreq + 1
    /\ UNCHANGED <<now, ticks, settings, users, redis, issued, nextJti, jar, hist>>

\* DELETE users:delete: guarded by superuser_required.
StartDeleteUser(s) ==
    /\ FreeSlot(s)
    /\ \E c \in {"su"}, u \in {"u1"} :
        req' = [req EXCEPT ![s] =
                  Begin([IdleReq EXCEPT !.op = "delete_user", !.client = c,
                                        !.access = jar[c].access, !.target = u],
                        jar[c].access, "cache_get")]
    /\ nreq' = nreq + 1
    /\ UNCHANGED <<now, ticks, settings, users, redis, issued, nextJti, jar, hist>>

\* ------------------------------------------------- authentication pipeline
\* get_current_user_for_refresh, auth.py 147-152: a revoked token raises
\* UnauthorizedException, any other goes on to _get_user_from_payload.
\* (Variant: the result of the lookup is ignored.)
raise_if_revoked_ignored(r, token_exists) == [r EXCEPT !.pc = "cache_get"]
raise_if_revoked(r, token_exists) ==
    IF token_exists THEN Raise(r, 401, "Invalid credentials") ELSE [r EXCEPT !.pc = "cache_get"]

\* get_current_user_for_refresh, auth.py 145-152.
BlacklistCheck(s) ==
    /\ Running
    /\ req[s].pc = "blacklist"
    /\ LET found == is_token_in_blacklist(redis, req[s].payload.jti)
           r1 == [Did(req[s], "blacklist") EXCEPT !.refresh_jti = req[s].payload.jti,
                                                  !.token_exists = found]
       IN req' = [req EXCEPT ![s] = raise_if_revoked(r1, found)]
    /\ UNCHANGED <<now, ticks, settings, users, redis, issued, nextJti, nreq, jar, hist>>

\* The cashews decorator on _get_user_from_payload: read the key.
CacheGet(s) ==
    /\ Running
    /\ req[s].pc = "cache_get"
    /\ LET k == CacheKey(req[s].payload.sub)
       IN req' = [req EXCEPT ![s] =
                    IF Exists(redis, k)
                    THEN [Did(@, "cache_get") EXCEPT !.user_auth = redis[k].value,
                                                     !.cache_hit = TRUE, !.pc = "guard"]
                    ELSE [Did(@, "cache_get") EXCEPT !.pc = "db_load"]]
    /\ UNCHANGED <<now, ticks, settings, users, redis, issued, nextJti, nreq, jar, hist>>

\* The body of _get_user_from_payload: users_service.get and to_schema.
DbLoad(s) ==
    /\ Running
    /\ req[s].pc = "db_load"
    /\ LET u == req[s].payload.sub
       IN req' = [req EXCEPT ![s] =
                    IF users[u].exists
                    THEN [Did(@, "db_load") EXCEPT !.user_auth = to_schema_UserAuth(u),
                                                   !.pc = "cache_set"]
                    ELSE Raise(Did(@, "db_load"), 401, "Invalid authentication credentials")]
    /\ UNCHANGED <<now, ticks, settings, users, redis, issued, nextJti, nreq, jar, hist>>

\* The cashews decorator: store the returned projection with the TTL.
CacheSet(s) ==
    /\ Running
    /\ req[s].pc = "cache_set"
    /\ redis' = Setex(redis, CacheKey(req[s].payload.sub), USER_AUTH_CACHE_TTL, req[s].user_auth)
    /\ req' = [req EXCEPT ![s] = [Did(@, "cache_set") EXCEPT !.pc = "guard"]]
    /\ UNCHANGED <<now, ticks, settings, users, issued, nextJti, nreq, jar, hist>>

\* ------------------------------------------------------------------ guards
\* 0 when the guard lets the request through, else the status it raises.
current_active_user(user_auth) == IF ~user_auth.is_active THEN 401 ELSE 0

\* (Variant: a missing privilege is reported like a failed authentication.)
superuser_required_unauthorized(user_auth) ==
    IF current_active_user(user_auth) # 0 THEN current_active_user(user_auth)
    ELSE IF ~user_auth.is_superuser THEN 401 ELSE 0
\* (Variant: the privilege is tested before the account status.)
superuser_required_privilege_first(user_auth) ==
    IF ~user_auth.is_superuser THEN 403
    ELSE current_active_user(user_auth)
superuser_required(user_auth) ==
    IF current_active_user(user_auth) # 0 THEN current_active_user(user_auth)
    ELSE IF ~user_auth.is_superuser THEN 403 ELSE 0

trainer_required(user_auth) ==
    IF current_active_user(user_auth) # 0 THEN current_active_user(user_auth)
    ELSE IF user_auth.role_slug = FITNESS_TRAINER_ROLE_SLUG THEN 0 ELSE 403

\* The message of the exception a guard raises with the given status.
guard_detail(code) ==
    IF code = 401 THEN "Invalid credentials or account is unavailable"
    ELSE "Access denied: Superuser privileges required"

\* ---------------------------------------------------------------- handlers
\* The handler body starts once the guard has let the request through.
Enter(r) == [r EXCEPT !.entered = TRUE, !.ran_inactive = ~users[r.payload.sub].is_active]

\* user_auth._refresh_jti as the handler reads it: get_current_user_for_refresh sets
\* it on the projection it returns, cached or loaded, from the jti it decoded
\* (auth.py 161).
\* (Variant: a projection that came from the cache keeps the None of __post_init__.)
attached_refresh_jti_unless_cached(r) == IF r.cache_hit THEN "none" ELSE r.payload.jti
attached_refresh_jti(r) == r.payload.jti

\* user_auth_refresh_token, access.py 140-177, after the active check of auth.py 157.
HandleRefresh(s) ==
    /\ Running
    /\ req[s].pc = "guard"
    /\ req[s].op = "refresh"
    /\ IF ~req[s].user_auth.is_active
       THEN /\ req' = [req EXCEPT ![s] =
                        Raise(@, 401, "Invalid credentials or account is unavailable")]
            /\ UNCHANGED <<issued, nextJti, jar, hist>>
       ELSE /\ CanIssue
            /\ LET at == create_access_token(req[s].user_auth.id, FreshJti(0))
                   rt == create_refresh_token(req[s].user_auth.id, FreshJti(1))
               IN /\ req' = [req EXCEPT ![s] = [Enter(@) EXCEPT !.status = 204, !.out_access = at,
                                                     !.out_refresh = rt, !.bg = {"blacklist"},
                                                     !.refresh_jti = attached_refresh_jti(req[s]),
                                                     !.pc = "background"]]
                  /\ issued' = issued \cup {at, rt}
                  /\ jar' = IF req[s].client \in Browsers
                            THEN SetCookies(req[s].client, at, rt) ELSE jar
            /\ nextJti' = nextJti + 2
            /\ hist' = [hist EXCEPT !.consumed = @ \cup {req[s].refresh.jti}]
    /\ UNCHANGED <<now, ticks, settings, users, redis, nreq>>

\* user_auth_get_self_info, access.py 257-265.
HandleProfile(s) ==
    /\ Running
    /\ req[s].pc = "guard"
    /\ req[s].op = "profile"
    /\ req' = [req EXCEPT ![s] =
                 IF current_active_user(req[s].user_auth) # 0
                 THEN Raise(@, current_active_user(req[s].user_auth), guard_detail(401))
                 ELSE [Enter(@) EXCEPT !.status = 200, !.pc = "done",
                                       !.body = req[s].user_auth]]
    /\ UNCHANGED <<now, ticks, settings, users, redis, issued, nextJti, nreq, jar, hist>>

\* perform_logout_cleanup, utils.py 59-77: the two coroutines it gathers.
\* (Variant: only the revocation is gathered.)
perform_logout_cleanup_partial == {"blacklist"}
perform_logout_cleanup == {"blacklist", "invalidate"}

\* logout, access.py 186-211: the second dependency reads the refresh cookie.
HandleLogout(s) ==
    /\ Running
    /\ req[s].pc = "guard"
    /\ req[s].op = "logout"
    /\ LET g == current_active_user(req[s].user_auth)
           bad == req[s].refresh = NoToken \/ ~get_payload_from_token_ok(req[s].refresh)
       IN /\ req' = [req EXCEPT ![s] =
                 IF g # 0 THEN Raise(@, g, guard_detail(g))
                 ELSE IF bad THEN Raise(@, 401, IF req[s].refresh = NoToken
                                                THEN "Not authenticated"
                                                ELSE "Invalid or expired token")
                 ELSE [Enter(@) EXCEPT !.refresh_jti = req[s].refresh.jti, !.status = 204,
                                !.cleared = TRUE, !.bg = perform_logout_cleanup,
                                !.pc = "background"]]
          /\ jar' = IF g = 0 /\ ~bad THEN ClearCookies(req[s].client) ELSE jar
    /\ UNCHANGED <<now, ticks, settings, users, redis, issued, nextJti, nreq, hist>>

\* update_password, access.py 220-248 with UserService.update_password: the new hash
\* is set on the loaded row and reaches the table when the session commits.
HandleUpdatePassword(s) ==
    /\ Running
    /\ req[s].pc = "guard"
    /\ req[s].op = "update_pwd"
    /\ LET u == req[s].user_auth.id
       IN req' = [req EXCEPT ![s] =
                 IF current_active_user(req[s].user_auth) # 0
                 THEN Raise(@, current_active_user(req[s].user_auth), guard_detail(401))
                 ELSE IF ~users[u].exists
                 THEN Reject(Enter(@), 404)
                 ELSE IF ~verify_password(req[s].password, users[u].password)
                 THEN Reject(Enter(@), 401)
                 ELSE [Enter(@) EXCEPT !.status = 204, !.cleared = TRUE, !.bg = {"invalidate"},
                                !.target = u,
                                !.write = [field |-> "password", target |-> u, flag |-> FALSE,
                                           text |-> get_password_hash(req[s].new_password),
                                           hash |-> "none"],
                                !.pc = "commit"]]
    /\ UNCHANGED <<now, ticks, settings, users, redis, issued, nextJti, nreq, jar, hist>>

\* A flushed UPDATE holds the row until its transaction ends.
RowLocked(s, u) ==
    \E t \in Slots \ {s} :
        /\ req[t].pc \in {"invalidate", "commit"}
        /\ req[t].op \in {"assign_role", "revoke_role", "update_user", "delete_user"}
        /\ req[t].write.target = u

\* The unique index on user_account.email: a row written by a transaction that has
\* not ended makes every other writer of the same email wait for that transaction.
EmailLocked(s, e) ==
    \E t \in Slots \ {s} :
        /\ req[t].pc \in {"invalidate", "commit"}
        /\ \/ req[t].write.field \in {"insert", "email"} /\ req[t].write.text = e
           \/ /\ req[t].write.field \in {"delete", "email"}
              /\ users[req[t].write.target].email = e

\* The flush of an INSERT or UPDATE raises DuplicateKeyError when another row holds
\* the email.
DuplicateKeyError_never(u, e) == FALSE
DuplicateKeyError(u, e) ==
    \E v \in DOMAIN users : v # u /\ users[v].exists /\ users[v].email = e

\* check_critical_action_forbidden, services.py 121-141.
\* (Variant: only the caller's own account is protected.)
check_critical_action_forbidden_self_only(target, caller) == target = caller
check_critical_action_forbidden(target, caller) ==
    users[target].email = DEFAULT_ADMIN_EMAIL \/ target = caller

\* user_obj.role_id == role.id for the role looked up by the slug of the request,
\* user_role.py 64 and 107.
\* (Variants: the comparison never holds; the comparison always holds.)
holds_role_never(role_slug, slug) == FALSE
holds_role_always(role_slug, slug) == TRUE
holds_role(role_slug, slug) == role_slug = slug

\* After users_service.update or delete has flushed, the handler awaits
\* invalidate_user_cache before it builds the response.
\* (Variant: the handler answers without the invalidation.)
await_invalidate_skipped(r, w) ==
    [Enter(r) EXCEPT !.target = w.target, !.write = w, !.pc = "commit",
                     !.status = IF r.op = "delete_user" THEN 204 ELSE 200]
await_invalidate(r, w) ==
    [Enter(r) EXCEPT !.target = w.target, !.write = w, !.pc = "invalidate"]

\* assign_new_role, user_role.py 39-68: up to the flushed UPDATE.
HandleAssignRole(s) ==
    /\ Running
    /\ req[s].pc = "guard"
    /\ req[s].op = "assign_role"
    /\ LET u == UserByEmail(req[s].username)
           g == superuser_required(req[s].user_auth)
       IN /\ (g = 0 /\ u # "none") => ~RowLocked(s, u)
          /\ req' = [req EXCEPT ![s] =
                 IF g # 0 THEN Raise(@, g, guard_detail(g))
                 ELSE IF u = "none" \/ ~users[u].exists THEN Reject(Enter(@), 404)
                 ELSE IF ~users[u].is_active THEN Reject(Enter(@), 403)
                 ELSE IF check_critical_action_forbidden(u, req[s].user_auth.id)
                 THEN Reject(Enter(@), 403)
                 ELSE IF holds_role(users[u].role_slug, req[s].role) THEN Reject(Enter(@), 409)
                 ELSE await_invalidate(@, [field |-> "role_slug", target |-> u,
                                           flag |-> FALSE, text |-> req[s].role,
                                           hash |-> "none"])]
    /\ UNCHANGED <<now, ticks, settings, users, redis, issued, nextJti, nreq, jar, hist>>

\* update_user, users.py 135-161: up to the flushed UPDATE.
HandleUpdateUser(s) ==
    /\ Running
    /\ req[s].pc = "guard"
    /\ req[s].op = "update_user"
    /\ LET u == req[s].target
           g == superuser_required(req[s].user_auth)
           e == req[s].email
       IN /\ g = 0 => ~RowLocked(s, u)
          /\ (g = 0 /\ e # "none") => ~EmailLocked(s, e)
          /\ req' = [req EXCEPT ![s] =
                 IF g # 0 THEN Raise(@, g, guard_detail(g))
                 ELSE IF ~users[u].exists THEN Reject(Enter(@), 404)
                 ELSE IF check_critical_action_forbidden(u, req[s].user_auth.id)
                 THEN Reject(Enter(@), 403)
                 ELSE IF e # "none" /\ DuplicateKeyError(u, e)
                 THEN Raise(Enter(@), 409, "A user with the email is already registered")
                 ELSE IF e # "none"
                 THEN await_invalidate(@, [field |-> "email", target |-> u, flag |-> FALSE,
                                           text |-> e, hash |-> "none"])
                 ELSE await_invalidate(@, [field |-> "is_active", target |-> u,
                                           flag |-> req[s].set_active, text |-> "none",
                                           hash |-> "none"])]
    /\ UNCHANGED <<now, ticks, settings, users, redis, issued, nextJti, nreq, jar, hist>>

\* revoke_and_set_default_role, user_role.py 82-129: up to the flushed UPDATE.
HandleRevokeRole(s) ==
    /\ Running
    /\ req[s].pc = "guard"
    /\ req[s].op = "revoke_role"
    /\ LET u == UserByEmail(req[s].username)
           g == superuser_required(req[s].user_auth)
       IN /\ (g = 0 /\ u # "none") => ~RowLocked(s, u)
          /\ req' = [req EXCEPT ![s] =
                 IF g # 0 THEN Raise(@, g, guard_detail(g))
                 ELSE IF u = "none" \/ ~users[u].exists THEN Reject(Enter(@), 404)
                 ELSE IF ~users[u].is_active THEN Reject(Enter(@), 403)
                 ELSE IF check_critical_action_forbidden(u, req[s].user_auth.id)
                 THEN Reject(Enter(@), 403)
                 ELSE IF ~holds_role(users[u].role_slug, req[s].role) THEN Reject(Enter(@), 409)
                 ELSE await_invalidate(@, [field |-> "role_slug", target |-> u,
                                           flag |-> FALSE, text |-> DEFAULT_USER_ROLE_SLUG,
                                           hash |-> "none"])]
    /\ UNCHANGED <<now, ticks, settings, users, redis, issued, nextJti, nreq, jar, hist>>

\* delete_user, users.py 180-207: up to the flushed DELETE.
HandleDeleteUser(s) ==
    /\ Running
    /\ req[s].pc = "guard"
    /\ req[s].op = "delete_user"
    /\ LET u == req[s].target
           g == superuser_required(req[s].user_auth)
       IN /\ g = 0 => ~RowLocked(s, u)
          /\ req' = [req EXCEPT ![s] =
                 IF g # 0 THEN Raise(@, g, guard_detail(g))
                 ELSE IF ~users[u].exists THEN Reject(Enter(@), 404)
                 ELSE IF check_critical_action_forbidden(u, req[s].user_auth.id)
                 THEN Reject(Enter(@), 403)
                 ELSE await_invalidate(@, [field |-> "delete", target |-> u,
                                           flag |-> FALSE, text |-> "none",
                                           hash |-> "none"])]
    /\ UNCHANGED <<now, ticks, settings, users, redis, issued, nextJti, nreq, jar, hist>>

\* The UPDATE, INSERT or DELETE a request has flushed, applied to the table.
\* (Variant: a change of role sets the superuser flag to match the role.)
ApplyWrite_role_sets_flag(tbl, w) ==
    IF w.field = "role_slug"
    THEN [tbl EXCEPT ![w.target].role_slug = w.text,
                     ![w.target].is_superuser = (w.text = SUPERUSER_ROLE_SLUG)]
    ELSE tbl
ApplyWrite(tbl, w) ==
    IF w.field = "password" THEN [tbl EXCEPT ![w.target].password = w.text]
    ELSE IF w.field = "role_slug" THEN [tbl EXCEPT ![w.target].role_slug = w.text]
    ELSE IF w.field = "is_active" THEN [tbl EXCEPT ![w.target].is_active = w.flag]
    ELSE IF w.field = "delete" THEN [tbl EXCEPT ![w.target] = NoRow]
    ELSE IF w.field = "email" THEN [tbl EXCEPT ![w.target].email = w.text]
    ELSE IF w.field = "insert"
    THEN [tbl EXCEPT ![w.target] = [exists |-> TRUE, email |-> w.text, is_active |-> TRUE,
                                    is_superuser |-> FALSE,
                                    role_slug |-> DEFAULT_USER_ROLE_SLUG,
                                    password |-> w.hash]]
    ELSE tbl

\* await invalidate_user_cache(...) inside the handler: user_role.py 69-72, users.py 162-164.
InlineInvalidate(s) ==
    /\ Running
    /\ req[s].pc = "invalidate"
    /\ redis' = invalidate_user_cache(redis, req[s].write.target)
    /\ req' = [req EXCEPT ![s] = [@ EXCEPT !.status = IF req[s].op = "delete_user"
                                                    THEN 204 ELSE 200,
                                         !.pc = "commit",
                                         !.body = IF req[s].op = "update_user"
                                                  THEN to_schema_User(req[s].write.target,
                                                         ApplyWrite(users, req[s].write)[req[s].write.target])
                                                  ELSE @,
                                         !.inv_calls = @ + 1,
                                         !.inv_id = req[s].write.target,
                                         !.stale_left = Exists(redis', CacheKey(req[s].write.target))]]
    /\ UNCHANGED <<now, ticks, settings, users, issued, nextJti, nreq, jar, hist>>

\* commit_mode="autocommit": the session commits once the handler has produced a 2xx
\* response; the response is then sent and the background tasks start.
Commit(s) ==
    /\ Running
    /\ req[s].pc = "commit"
    /\ ~RowLocked(s, req[s].write.target)
    /\ users' = ApplyWrite(users, req[s].write)
    /\ req' = [req EXCEPT ![s].pc = IF req[s].bg = {} THEN "done" ELSE "background"]
    /\ jar' = IF req[s].cleared THEN ClearCookies(req[s].client) ELSE jar
    /\ hist' = IF req[s].write.field = "password"
               THEN [hist EXCEPT !.pw_stale = @ \cup {t.jti : t \in {x \in issued :
                                     x.sub = req[s].write.target /\ x.kind = "refresh"}}]
               ELSE hist
    /\ UNCHANGED <<now, ticks, settings, redis, issued, nextJti, nreq>>

\* ------------------------------------------------------- background tasks
AfterTask(r, task) ==
    [r EXCEPT !.bg = r.bg \ {task}, !.pc = IF r.bg \ {task} = {} THEN "done" ELSE "background"]

\* History: revocations that have completed, logouts all of whose tasks have run.
Record(r, task) ==
    [hist EXCEPT !.revoked = IF task = "blacklist" THEN @ \cup {r.refresh_jti} ELSE @,
                 !.logged_out = IF r.op = "logout" /\ r.bg \ {task} = {}
                                THEN @ \cup {r.access.jti} ELSE @]

\* add_token_to_blacklist as the background task of refresh, or inside
\* perform_logout_cleanup's gather.
BgBlacklist(s) ==
    /\ Running
    /\ req[s].pc = "background"
    /\ "blacklist" \in req[s].bg
    /\ redis' = add_token_to_blacklist(redis, req[s].refresh_jti)
    /\ req' = [req EXCEPT ![s] = AfterTask(@, "blacklist")]
    /\ hist' = Record(req[s], "blacklist")
    /\ UNCHANGED <<now, ticks, settings, users, issued, nextJti, nreq, jar>>

\* invalidate_user_cache as the background task of the password update, or inside
\* perform_logout_cleanup's gather.
BgInvalidate(s) ==
    /\ Running
    /\ req[s].pc = "background"
    /\ "invalidate" \in req[s].bg
    /\ redis' = invalidate_user_cache(redis, req[s].user_auth.id)
    /\ req' = [req EXCEPT ![s] =
                 [AfterTask(@, "invalidate") EXCEPT
                     !.inv_calls = @ + 1,
                     !.inv_id = req[s].user_auth.id,
                     !.stale_left = Exists(redis', CacheKey(req[s].user_auth.id))]]
    /\ hist' = Record(req[s], "invalidate")
    /\ UNCHANGED <<now, ticks, settings, users, issued, nextJti, nreq, jar>>

\* The client has its response and every task of the request has run.
Finish(s) ==
    /\ req[s].pc = "done"
    /\ req' = [req EXCEPT ![s] = IdleReq]
    /\ UNCHANGED <<now, ticks, settings, users, redis, issued, nextJti, nreq, jar, hist>>

Next ==
    \/ Tick
    \/ \E s \in Slots :
        \/ Login(s)
        \/ StartRefresh(s)
        \/ StartProfile(s)
        \/ StartLogout(s)
        \/ StartUpdatePassword(s)
        \/ StartAssignRole(s)
        \/ StartUpdateUser(s)
        \/ BlacklistCheck(s)
        \/ CacheGet(s)
        \/ DbLoad(s)
        \/ CacheSet(s)
        \/ HandleRefresh(s)
        \/ HandleProfile(s)
        \/ HandleLogout(s)
        \/ HandleUpdatePassword(s)
        \/ HandleAssignRole(s)
        \/ HandleUpdateUser(s)
        \/ InlineInvalidate(s)
        \/ Commit(s)
        \/ BgBlacklist(s)
        \/ BgInvalidate(s)
        \/ Finish(s)

Spec == Init /\ [][Next]_vars

\* Starlette runs every background task of a response that was sent, and the event
\* loop completes every request.
FairSpec ==
    /\ Spec
    /\ \A s \in Slots : WF_vars(BgBlacklist(s))
    /\ \A s \in Slots : WF_vars(BgInvalidate(s))
    /\ \A s \in Slots : WF_vars(Finish(s))
\* ------------------------------------------------- administration at large
\* Every account as the target of the superuser endpoints, every browser as the
\* caller, and login forms with an email nobody registered.
LoginEmails(c) == {EmailOf(c), "nobody@example.com"}

LoginAny(s) ==
    /\ FreeSlot(s)
    /\ CanIssue
    /\ \E c \in Browsers, pw \in Passwords :
        \E e \in LoginEmails(c) : LoginAs(s, c, e, pw)
    /\ nreq' = nreq + 1
    /\ UNCHANGED <<now, ticks, settings, users, redis, hist>>

\* A token nobody signed with the application's key, naming a superuser.
ForgedToken == [sub |-> "su", jti |-> "forged", iat |-> 0,
                exp |-> REFRESH_TOKEN_MAX_AGE, kind |-> "access"]

\* A request to one of the endpoints guarded by superuser_required, with the access
\* cookie the client holds or with a forged one.
StartSuperuserOp(s, c, r0) ==
    /\ FreeSlot(s)
    /\ \E tok \in {jar[c].access, ForgedToken} :
        req' = [req EXCEPT ![s] = Begin([r0 EXCEPT !.client = c, !.access = tok],
                                       tok, "cache_get")]
    /\ nreq' = nreq + 1
    /\ UNCHANGED <<now, ticks, settings, users, redis, issued, nextJti, jar, hist>>

\* PATCH roles:assign for any email.
StartAssignRoleAny(s) ==
    \E c \in Browsers, u \in UserIds :
        StartSuperuserOp(s, c, [IdleReq EXCEPT !.op = "assign_role", !.username = EmailOf(u),
                                              !.target = u, !.role = FITNESS_TRAINER_ROLE_SLUG])

\* PATCH roles:revoke for any email.
StartRevokeRoleAny(s) ==
    \E c \in Browsers, u \in UserIds :
        StartSuperuserOp(s, c, [IdleReq EXCEPT !.op = "revoke_role", !.username = EmailOf(u),
                                              !.target = u, !.role = FITNESS_TRAINER_ROLE_SLUG])

\* PATCH users:update for any user_id.
StartUpdateUserAny(s) ==
    \E c \in Browsers, u \in UserIds, active \in BOOLEAN :
        StartSuperuserOp(s, c, [IdleReq EXCEPT !.op = "update_user", !.target = u,
                                              !.set_active = active])

\* DELETE users:delete for any user_id.
StartDeleteUserAny(s) ==
    \E c \in Browsers, u \in UserIds :
        StartSuperuserOp(s, c, [IdleReq EXCEPT !.op = "delete_user", !.target = u])

\* POST logout from a client that sends its access cookie and no refresh cookie.
StartLogoutAccessOnly(s) ==
    /\ FreeSlot(s)
    /\ \E c \in Browsers :
        req' = [req EXCEPT ![s] =
                  Begin([IdleReq EXCEPT !.op = "logout", !.client = c,
                                        !.access = jar[c].access],
                        jar[c].access, "cache_get")]
    /\ nreq' = nreq + 1
    /\ UNCHANGED <<now, ticks, settings, users, redis, issued, nextJti, jar, hist>>

AdminNext ==
    \E s \in Slots :
        \/ LoginAny(s)
        \/ StartRefresh(s)
        \/ StartProfile(s)
        \/ StartLogoutAccessOnly(s)
        \/ StartUpdatePassword(s)
        \/ StartAssignRoleAny(s)
        \/ StartRevokeRoleAny(s)
        \/ StartUpdateUserAny(s)
        \/ StartDeleteUserAny(s)
        \/ BlacklistCheck(s)
        \/ CacheGet(s)
        \/ DbLoad(s)
        \/ CacheSet(s)
        \/ HandleRefresh(s)
        \/ HandleProfile(s)
        \/ HandleLogout(s)
        \/ HandleUpdatePassword(s)
        \/ HandleAssignRole(s)
        \/ HandleRevokeRole(s)
        \/ HandleUpdateUser(s)
        \/ HandleDeleteUser(s)
        \/ InlineInvalidate(s)
        \/ Commit(s)
        \/ BgBlacklist(s)
        \/ BgInvalidate(s)
        \/ Finish(s)

AdminSpec == Init /\ [][AdminNext]_vars

\* ------------------------------------------------------ adverse conditions
\* Redis calls that raise (connection lost, timeout) and a client that puts its
\* refresh token into the access_token cookie.  Only BaseAPIException and
\* RequestValidationError have a handler (server/core.py 68-69): any other exception
\* that leaves a dependency or a handler is answered 500 by Starlette, and the
\* request's session is rolled back.
Crash(r, call) ==
    [Raise(r, 500, "Internal Server Error") EXCEPT !.fault = @ \cup {call},
                                                    !.write = NoWrite, !.bg = {}]

\* is_token_in_blacklist raises: redis_client.exists is not guarded, auth.py 147-149.
BlacklistCheckFails(s) ==
    /\ Running
    /\ req[s].pc = "blacklist"
    /\ req' = [req EXCEPT ![s] = Crash(@, "blacklist")]
    /\ UNCHANGED <<now, ticks, settings, users, redis, issued, nextJti, nreq, jar, hist>>

\* The cache read of the cashews decorator raises.  How the cache is set up is not
\* part of the source: with errors suppressed the call goes on to the decorated
\* function as on a miss, otherwise the error leaves the dependency.
CacheGetFails(s) ==
    /\ Running
    /\ req[s].pc = "cache_get"
    /\ \E suppress \in BOOLEAN :
        req' = [req EXCEPT ![s] =
                  IF suppress THEN [@ EXCEPT !.fault = @ \cup {"cache_get"}, !.pc = "db_load"]
                  ELSE Crash(@, "cache_get")]
    /\ UNCHANGED <<now, ticks, settings, users, redis, issued, nextJti, nreq, jar, hist>>

\* The awaited invalidate_user_cache raises inside the handler, after the flush.
InlineInvalidateFails(s) ==
    /\ Running
    /\ req[s].pc = "invalidate"
    /\ req' = [req EXCEPT ![s] = [Crash(@, "invalidate") EXCEPT !.inv_calls = @ + 1]]
    /\ UNCHANGED <<now, ticks, settings, users, redis, issued, nextJti, nreq, jar, hist>>

\* add_token_to_blacklist raises in the background: the response has been sent.
BgBlacklistFails(s) ==
    /\ Running
    /\ req[s].pc = "background"
    /\ "blacklist" \in req[s].bg
    /\ req' = [req EXCEPT ![s] = [AfterTask(@, "blacklist") EXCEPT !.fault = @ \cup {"revoke"}]]
    /\ UNCHANGED <<now, ticks, settings, users, redis, issued, nextJti, nreq, jar, hist>>

\* invalidate_user_cache raises in the background: the response has been sent.
BgInvalidateFails(s) ==
    /\ Running
    /\ req[s].pc = "background"
    /\ "invalidate" \in req[s].bg
    /\ req' = [req EXCEPT ![s] = [AfterTask(@, "invalidate") EXCEPT
                                     !.fault = @ \cup {"invalidate"},
                                     !.inv_calls = @ + 1]]
    /\ UNCHANGED <<now, ticks, settings, users, redis, issued, nextJti, nreq, jar, hist>>

\* GET profile from a client that sends its refresh token as the access_token cookie.
StartProfileCrossed(s) ==
    /\ FreeSlot(s)
    /\ \E c \in {"u1", "old"} :
        req' = [req EXCEPT ![s] =
                  Begin([IdleReq EXCEPT !.op = "profile", !.client = c,
                                        !.access = jar[c].refresh,
                                        !.was_revoked = jar[c].refresh.jti \in hist.revoked],
                        jar[c].refresh, "cache_get")]
    /\ nreq' = nreq + 1
    /\ UNCHANGED <<now, ticks, settings, users, redis, issued, nextJti, jar, hist>>

AdverseNext ==
    \E s \in Slots :
        \/ Login(s)
        \/ StartRefresh(s)
        \/ StartProfileCrossed(s)
        \/ StartLogout(s)
        \/ StartUpdatePassword(s)
        \/ StartAssignRole(s)
        \/ StartRevokeRole(s)
        \/ StartUpdateUser(s)
        \/ StartDeleteUser(s)
        \/ BlacklistCheck(s)
        \/ BlacklistCheckFails(s)
        \/ CacheGet(s)
        \/ CacheGetFails(s)
        \/ DbLoad(s)
        \/ CacheSet(s)
        \/ HandleRefresh(s)
        \/ HandleProfile(s)
        \/ HandleLogout(s)
        \/ HandleUpdatePassword(s)
        \/ HandleAssignRole(s)
        \/ HandleRevokeRole(s)
        \/ HandleUpdateUser(s)
        \/ HandleDeleteUser(s)
        \/ InlineInvalidate(s)
        \/ InlineInvalidateFails(s)
        \/ Commit(s)
        \/ BgBlacklist(s)
        \/ BgBlacklistFails(s)
        \/ BgInvalidate(s)
        \/ BgInvalidateFails(s)
        \/ Finish(s)

AdverseSpec == Init /\ [][AdverseNext]_vars

\* ---------------------------------------------------------------- accounts
\* Registration, creation by a superuser and a change of email, next to profile reads
\* and deletions.
SignupEmails == {"new@example.com", EmailOf("u1")}
UpdateEmails == {"new@example.com", EmailOf("su"), EmailOf("u1")}

\* The primary key of the next row: a key no row and no unfinished INSERT carries.
FreeIds(s) ==
    {n \in NewIds : /\ ~users[n].exists
                    /\ \A t \in Slots \ {s} :
                          ~(req[t].write.field = "insert" /\ req[t].write.target = n)}
FreeId(s) == CHOOSE n \in FreeIds(s) : TRUE

\* users_service.create followed by to_schema and the 201 response, access.py 75-84 and
\* users.py 71-78: DuplicateKeyError becomes ConflictException.
create(s, r) ==
    LET w == [field |-> "insert", target |-> FreeId(s), flag |-> FALSE, text |-> r.email,
              hash |-> get_password_hash(r.password)]
    IN IF DuplicateKeyError("none", r.email)
       THEN Raise([r EXCEPT !.entered = TRUE], 409, "A user with this email already exists")
       ELSE [r EXCEPT !.entered = TRUE, !.target = w.target, !.write = w,
                      !.status = 201, !.pc = "commit",
                      !.body = to_schema_User(w.target, ApplyWrite(users, w)[w.target])]

\* POST signup, access.py 59-84: no dependency guards it.
Signup(s) ==
    /\ FreeSlot(s)
    /\ FreeIds(s) # {}
    /\ \E e \in SignupEmails :
        /\ ~EmailLocked(s, e)
        /\ req' = [req EXCEPT ![s] =
                     create(s, [IdleReq EXCEPT !.op = "signup", !.email = e,
                                               !.password = "pw1"])]
    /\ nreq' = nreq + 1
    /\ UNCHANGED <<now, ticks, settings, users, redis, issued, nextJti, jar, hist>>

\* POST users: guarded by superuser_required.
StartCreateUser(s) ==
    /\ FreeSlot(s)
    /\ \E c \in {"su"}, e \in SignupEmails :
        req' = [req EXCEPT ![s] =
                  Begin([IdleReq EXCEPT !.op = "create_user", !.client = c,
                                        !.access = jar[c].access,
                                        !.email = e, !.password = "pw2"],
                        jar[c].access, "cache_get")]
    /\ nreq' = nreq + 1
    /\ UNCHANGED <<now, ticks, settings, users, redis, issued, nextJti, jar, hist>>

\* create_user, users.py 48-78.
HandleCreateUser(s) ==
    /\ Running
    /\ req[s].pc = "guard"
    /\ req[s].op = "create_user"
    /\ LET g == superuser_required(req[s].user_auth)
       IN /\ g = 0 => (FreeIds(s) # {} /\ ~EmailLocked(s, req[s].email))
          /\ req' = [req EXCEPT ![s] =
                 IF g # 0 THEN Raise(@, g, guard_detail(g))
                 ELSE create(s, Enter(@))]
    /\ UNCHANGED <<now, ticks, settings, users, redis, issued, nextJti, nreq, jar, hist>>

\* PATCH users/{user_id} with a new email.
StartUpdateEmail(s) ==
    /\ FreeSlot(s)
    /\ \E c \in {"su"}, u \in {"u1"}, e \in UpdateEmails :
        req' = [req EXCEPT ![s] =
                  Begin([IdleReq EXCEPT !.op = "update_user", !.client = c,
                                        !.access = jar[c].access,
                                        !.target = u, !.email = e],
                        jar[c].access, "cache_get")]
    /\ nreq' = nreq + 1
    /\ UNCHANGED <<now, ticks, settings, users, redis, issued, nextJti, jar, hist>>

AccountNext ==
    \/ \E s \in Slots : Login(s)
    \/ \E s \in Slots : Signup(s)
    \/ \E s \in Slots : StartProfile(s)
    \/ \E s \in Slots : StartCreateUser(s)
    \/ \E s \in Slots : StartUpdateEmail(s)
    \/ \E s \in Slots : StartDeleteUser(s)
    \/ \E s \in Slots : CacheGet(s)
    \/ \E s \in Slots : DbLoad(s)
    \/ \E s \in Slots : CacheSet(s)
    \/ \E s \in Slots : HandleProfile(s)
    \/ \E s \in Slots : HandleCreateUser(s)
    \/ \E s \in Slots : HandleUpdateUser(s)
    \/ \E s \in Slots : HandleDeleteUser(s)
    \/ \E s \in Slots : InlineInvalidate(s)
    \/ \E s \in Slots : Commit(s)
    \/ \E s \in Slots : Finish(s)

AccountSpec == Init /\ [][AccountNext]_vars


\* ----------------------------------------------------------------- removal
\* An account that has a session and is then deleted by a superuser while its client
\* keeps sending the cookies it holds.
FreeSlotWithin(s, n) ==
    /\ Running
    /\ req[s].pc = "idle"
    /\ \A t \in Slots : t < s => req[t].pc # "idle"
    /\ nreq < n

\* POST login with the account's own email and password.
SignIn(s) ==
    /\ FreeSlotWithin(s, MaxLateRequests)
    /\ CanIssue
    /\ \E c \in Browsers : LoginAs(s, c, EmailOf(c), "pw1")
    /\ nreq' = nreq + 1
    /\ UNCHANGED <<now, ticks, settings, users, redis, hist>>

\* GET profile with the access cookie of u1's browser.
StartProfileLate(s) ==
    /\ FreeSlotWithin(s, MaxLateRequests)
    /\ jar["u1"].access # NoToken
    /\ req' = [req EXCEPT ![s] =
                 Begin([IdleReq EXCEPT !.op = "profile", !.client = "u1",
                                       !.access = jar["u1"].access,
                                       !.after_delete = ~users[jar["u1"].access.sub].exists],
                       jar["u1"].access, "cache_get")]
    /\ nreq' = nreq + 1
    /\ UNCHANGED <<now, ticks, settings, users, redis, issued, nextJti, jar, hist>>

\* POST refresh with the refresh cookie of u1's browser.
StartRefreshLate(s) ==
    /\ FreeSlotWithin(s, MaxLateRequests)
    /\ jar["u1"].refresh # NoToken
    /\ req' = [req EXCEPT ![s] =
                 Begin([IdleReq EXCEPT !.op = "refresh", !.client = "u1",
                                       !.access = jar["u1"].access,
                                       !.refresh = jar["u1"].refresh,
                                       !.late = jar["u1"].refresh.jti \in hist.consumed,
                                       !.was_revoked = jar["u1"].refresh.jti \in hist.revoked,
                                       !.after_delete = ~users[jar["u1"].refresh.sub].exists],
                       jar["u1"].refresh, "blacklist")]
    /\ nreq' = nreq + 1
    /\ UNCHANGED <<now, ticks, settings, users, redis, issued, nextJti, jar, hist>>

\* DELETE users/{user_id} for u1, sent by the superuser's browser.
StartDeleteLate(s) ==
    /\ FreeSlotWithin(s, MaxLateRequests)
    /\ jar["su"].access # NoToken
    /\ req' = [req EXCEPT ![s] =
                 Begin([IdleReq EXCEPT !.op = "delete_user", !.client = "su",
                                       !.access = jar["su"].access, !.target = "u1"],
                       jar["su"].access, "cache_get")]
    /\ nreq' = nreq + 1
    /\ UNCHANGED <<now, ticks, settings, users, redis, issued, nextJti, jar, hist>>

RemovalNext ==
    \/ \E s \in Slots : SignIn(s)
    \/ \E s \in Slots : StartProfileLate(s)
    \/ \E s \in Slots : StartRefreshLate(s)
    \/ \E s \in Slots : StartDeleteLate(s)
    \/ \E s \in Slots : BlacklistCheck(s)
    \/ \E s \in Slots : CacheGet(s)
    \/ \E s \in Slots : DbLoad(s)
    \/ \E s \in Slots : CacheSet(s)
    \/ \E s \in Slots : HandleRefresh(s)
    \/ \E s \in Slots : HandleProfile(s)
    \/ \E s \in Slots : HandleDeleteUser(s)
    \/ \E s \in Slots : InlineInvalidate(s)
    \/ \E s \in Slots : Commit(s)
    \/ \E s \in Slots : BgBlacklist(s)
    \/ \E s \in Slots : Finish(s)

RemovalSpec == Init /\ [][RemovalNext]_vars


\* --------------------------------------------------------------- promotion
\* The promote-to-superuser command run from a shell while the application serves
\* requests, and the passing of time between requests.
\* _promote_to_superuser, scripts/commands.py 147-164: is_superuser and role_id are
\* updated with auto_commit=True; the command has no Redis client.
Promote ==
    /\ Running
    /\ hist.promoted_at = -1
    /\ \E email \in {EmailOf("u1")} :
        LET user == UserByEmail(email)
        IN /\ user # "none"
           /\ users' = [users EXCEPT ![user].is_superuser = TRUE,
                                     ![user].role_slug = SUPERUSER_ROLE_SLUG]
    /\ hist' = [hist EXCEPT !.promoted_at = now]
    /\ UNCHANGED <<now, ticks, settings, redis, issued, nextJti, nreq, jar, req>>

\* A quarter of an hour passes between requests; Redis drops the keys whose time to
\* live has elapsed.
Wait ==
    /\ \A t \in Slots : req[t].pc = "idle"
    /\ ticks < MaxWaits
    /\ \E d \in WaitSteps :
        /\ now' = now + d
        /\ redis' = Expire(redis, now + d)
    /\ ticks' = ticks + 1
    /\ UNCHANGED <<settings, users, issued, nextJti, nreq, jar, hist, req>>

PromoteNext ==
    \/ Wait
    \/ Promote
    \/ \E s \in Slots : SignIn(s)
    \/ \E s \in Slots : StartProfileLate(s)
    \/ \E s \in Slots : CacheGet(s)
    \/ \E s \in Slots : DbLoad(s)
    \/ \E s \in Slots : CacheSet(s)
    \/ \E s \in Slots : HandleProfile(s)
    \/ \E s \in Slots : Finish(s)

PromoteSpec == Init /\ [][PromoteNext]_vars


\* ------------------------------------------------------------------- roles
\* roles:assign and roles:revoke for u1 with either slug of the RoleSlug enum
\* (schemas.py 122-126), sent by the superuser's browser or by u1's own.
RoleSlugs == {SUPERUSER_ROLE_SLUG, FITNESS_TRAINER_ROLE_SLUG}

StartRoleOp(s, op) ==
    /\ FreeSlotWithin(s, MaxLateRequests)
    /\ \E c \in Browsers, slug \in RoleSlugs :
        /\ jar[c].access # NoToken
        /\ req' = [req EXCEPT ![s] =
                     Begin([IdleReq EXCEPT !.op = op, !.client = c,
                                           !.access = jar[c].access,
                                           !.username = EmailOf("u1"), !.target = "u1",
                                           !.role = slug],
                           jar[c].access, "cache_get")]
    /\ nreq' = nreq + 1
    /\ UNCHANGED <<now, ticks, settings, users, redis, issued, nextJti, jar, hist>>

\* PATCH roles:assign.
StartAssignEither(s) == StartRoleOp(s, "assign_role")
\* PATCH roles:revoke.
StartRevokeEither(s) == StartRoleOp(s, "revoke_role")

RoleNext ==
    \/ \E s \in Slots : SignIn(s)
    \/ \E s \in Slots : StartAssignEither(s)
    \/ \E s \in Slots : StartRevokeEither(s)
    \/ \E s \in Slots : CacheGet(s)
    \/ \E s \in Slots : DbLoad(s)
    \/ \E s \in Slots : CacheSet(s)
    \/ \E s \in Slots : HandleAssignRole(s)
    \/ \E s \in Slots : HandleRevokeRole(s)
    \/ \E s \in Slots : InlineInvalidate(s)
    \/ \E s \in Slots : Commit(s)
    \/ \E s \in Slots : Finish(s)

RoleSpec == Init /\ [][RoleNext]_vars


\* ------------------------------------------------------------ codec alone
\* The token codec exercised on its own: JWTSettings read from any environment,
\* create_access_token and create_refresh_token called for any subject at any time,
\* and get_payload_from_token applied to what they returned.
CodecInit ==
    /\ settings \in [ACCESS_TOKEN_EXPIRE_MINUTES : CodecMinutesChoices,
                     REFRESH_TOKEN_EXPIRE_DAYS : CodecDaysChoices]
    /\ Boot

\* A call of create_access_token or create_refresh_token; the call and what it
\* returned are kept in slot 1.
CodecIssue ==
    /\ nextJti <= MaxIssued
    /\ \E sub \in UserIds, kind \in {"access", "refresh"} :
        LET tok == IF kind = "access" THEN create_access_token(sub, FreshJti(0))
                                      ELSE create_refresh_token(sub, FreshJti(0))
        IN /\ issued' = issued \cup {tok}
           /\ req' = [req EXCEPT ![1] = [IdleReq EXCEPT !.op = "issue", !.target = sub,
                                                        !.role = kind, !.out_access = tok]]
    /\ nextJti' = nextJti + 1
    /\ UNCHANGED <<now, ticks, settings, users, redis, nreq, jar, hist>>

\* get_payload_from_token applied to the token the last call returned.
CodecDecode ==
    /\ req[1].op = "issue"
    /\ req[1].payload = NoToken
    /\ get_payload_from_token_ok(req[1].out_access)
    /\ req' = [req EXCEPT ![1].payload = req[1].out_access]
    /\ UNCHANGED <<now, ticks, settings, users, redis, issued, nextJti, nreq, jar, hist>>

CodecNext == Tick \/ CodecIssue \/ CodecDecode

CodecSpec == CodecInit /\ [][CodecNext]_vars

\* ------------------------------------------------------------------ claims
Succeeded(r) == r.status \in {200, 204}
Refused(r) == r.status \in {0, 401}
SameProjection(a, u) ==
    /\ a.role_slug = users[u].role_slug
    /\ a.is_active = users[u].is_active
    /\ a.is_superuser = users[u].is_superuser
MutationInFlight(u) ==
    \E s \in Slots : req[s].write.target = u /\ req[s].pc \notin {"idle", "done"}

\* C1: a refresh request whose blacklist check finds the jti of the presented token in
\* the ledger ends with 401 and issues no access token, no refresh token and no cookie.
C1_RevokedRefreshRejected ==
    \A s \in Slots :
        req[s].token_exists =>
            /\ req[s].pc = "done"
            /\ req[s].status = 401
            /\ req[s].out_access = NoToken
            /\ req[s].out_refresh = NoToken
            /\ ~req[s].cleared

C1_Witness ==
    \E s \in Slots :
        /\ req[s].op = "refresh"
        /\ req[s].token_exists
        /\ req[s].status = 401
        /\ is_token_in_blacklist(redis, req[s].refresh_jti)

\* C2: once a refresh presenting token R has returned success, every refresh request
\* that starts later and presents R is rejected with 401, whatever the interleaving.
C2_SingleUse ==
    \A s \in Slots : req[s].late => Refused(req[s])

\* C3: when no mutation of a subject is in flight, the identity cache holds no entry
\* for it whose role_slug, is_active or is_superuser differs from the user store.
C3_CacheNeverStale ==
    \A u \in UserIds :
        (~MutationInFlight(u) /\ Exists(redis, CacheKey(u)))
            => SameProjection(redis[CacheKey(u)].value, u)

\* C4: when invalidate_user_cache(user_id) returns, the key under which
\* _get_user_from_payload stores the entry of that subject is gone.
C4_InvalidateDeletesStoredKey ==
    \A s \in Slots : ~req[s].stale_left

\* C5: no guard lets a request through, and no handler body runs, for an identity
\* whose is_active is false in the user store.
C5_InactiveNeverPasses ==
    \A s \in Slots : ~req[s].ran_inactive

\* C6: once add_token_to_blacklist(jti) has completed, is_token_in_blacklist(jti) is
\* true at every time before the expiry claim of the token with that jti.
C6_LedgerOutlivesToken ==
    \A t \in issued :
        (t.jti \in hist.revoked /\ now < t.exp) => is_token_in_blacklist(redis, t.jti)

\* C7: the tokens a successful refresh returns differ from the ones presented, and
\* the refresh is eventually followed by a state in which the jti of the refresh
\* token it consumed is in the ledger.
C7_RefreshEventuallyRevokes ==
    /\ [](\A s \in Slots :
            (req[s].op = "refresh" /\ req[s].status = 204) =>
                /\ req[s].out_access \notin {req[s].access, req[s].refresh, NoToken}
                /\ req[s].out_refresh \notin {req[s].access, req[s].refresh, NoToken}
                /\ req[s].out_access.jti # req[s].out_refresh.jti)
    /\ \A s \in Slots :
            (req[s].op = "refresh" /\ req[s].status = 204)
                ~> (/\ req[s].op = "refresh"
                    /\ req[s].pc = "done"
                    /\ is_token_in_blacklist(redis, req[s].refresh_jti))

C7_Witness ==
    \E s \in Slots :
        /\ req[s].op = "refresh"
        /\ req[s].status = 204
        /\ req[s].pc = "done"
        /\ req[s].refresh_jti = req[s].refresh.jti
        /\ is_token_in_blacklist(redis, req[s].refresh_jti)

\* C8: a successful logout answers 204 with both cookies cleared, and is eventually
\* followed by a state in which the jti of the presented refresh token is in the
\* ledger and invalidate_user_cache has been called exactly once for the caller.
C8_LogoutEventuallyCleansUp ==
    /\ [](\A s \in Slots :
            (req[s].op = "logout" /\ Succeeded(req[s])) =>
                /\ req[s].status = 204
                /\ req[s].cleared
                /\ req[s].inv_calls <= 1)
    /\ \A s \in Slots :
            (req[s].op = "logout" /\ req[s].status = 204)
                ~> (/\ req[s].op = "logout"
                    /\ req[s].pc = "done"
                    /\ is_token_in_blacklist(redis, req[s].refresh.jti)
                    /\ req[s].inv_calls = 1)

C8_Witness ==
    \E s \in Slots :
        /\ req[s].op = "logout"
        /\ req[s].status = 204
        /\ req[s].pc = "done"
        /\ req[s].cleared
        /\ req[s].inv_calls = 1
        /\ is_token_in_blacklist(redis, req[s].refresh.jti)

C10_OldRefreshDeadAfterPasswordUpdate ==
    \A s \in Slots : req[s].after_pw => Refused(req[s])

\* A guarded request the authentication pipeline or a guard turned down as Unauthorized.
AuthRejected(r) == r.op \notin {"idle", "login"} /\ r.status = 401 /\ ~r.entered

\* C14: every rejected authentication attempt carries the same status and the same
\* message, the one a missing cookie produces, whatever step of the pipeline failed.
C14_OneUnauthorizedResponse ==
    \A s \in Slots : AuthRejected(req[s]) => req[s].message = "Not authenticated"

\* The token the pipeline of the request reads: the refresh cookie on the refresh
\* path, the access cookie everywhere else.
PipelineToken(r) == IF r.op = "refresh" THEN r.refresh ELSE r.access
Responded(r) == r.pc \in {"background", "done"}

\* C18: a request presenting a token whose exp is in the past is answered 401 on the
\* access path and on the refresh path, the handler does not run and no token is
\* issued, whether or not an identity is cached for the subject.
C18_ExpiredTokenRejected ==
    \A s \in Slots :
        (/\ req[s].op \notin {"idle", "login"}
         /\ PipelineToken(req[s]) # NoToken
         /\ PipelineToken(req[s]).exp < now)
            => /\ req[s].pc = "done"
               /\ req[s].status = 401
               /\ ~req[s].entered
               /\ req[s].user_auth = NoAuth
               /\ req[s].out_access = NoToken
               /\ req[s].out_refresh = NoToken

C18_Witness ==
    \E s \in Slots :
        /\ req[s].op = "refresh"
        /\ req[s].refresh # NoToken
        /\ req[s].refresh.exp < now
        /\ req[s].status = 401
        /\ Exists(redis, CacheKey(req[s].refresh.sub))
        /\ redis[CacheKey(req[s].refresh.sub)].value.is_active

\* C19: a refresh request presenting a signed, unexpired refresh token whose jti was
\* never revoked, for a subject that exists and that the pipeline resolves as active,
\* is answered 204 with a new token pair, although the ledger has no record of the jti.
C19_AbsenceMeansNotRevoked ==
    \A s \in Slots :
        (/\ req[s].op = "refresh"
         /\ Responded(req[s])
         /\ req[s].payload # NoToken
         /\ req[s].refresh.jti \notin hist.revoked
         /\ users[req[s].refresh.sub].exists
         /\ (req[s].user_auth = NoAuth \/ req[s].user_auth.is_active))
            => /\ req[s].status = 204
               /\ req[s].out_access # NoToken
               /\ req[s].out_refresh # NoToken

C19_Witness ==
    \E s \in Slots :
        /\ req[s].op = "refresh"
        /\ req[s].pc = "background"
        /\ req[s].status = 204
        /\ req[s].refresh.jti \notin hist.revoked
        /\ \A k \in DOMAIN redis : k # LedgerKey(req[s].refresh.jti)

\* The lifetime the settings configure for a kind of token, in seconds.
ConfiguredLifetime(kind) ==
    IF kind = "access" THEN settings.ACCESS_TOKEN_EXPIRE_MINUTES * 60
    ELSE settings.REFRESH_TOKEN_EXPIRE_DAYS * 24 * 60 * 60

\* C20: decoding a freshly issued token recovers the subject it was issued for and an
\* exp equal to iat plus the lifetime configured for its kind, and every issuance
\* carries a jti of its own.
C20_CodecRoundTrip ==
    /\ \A s \in Slots :
          (req[s].op = "issue" /\ req[s].payload # NoToken) =>
              /\ req[s].payload.sub = req[s].target
              /\ req[s].payload.exp = req[s].payload.iat + ConfiguredLifetime(req[s].role)
    /\ Cardinality({t.jti : t \in issued}) = nextJti - 1

\* A login whose response is on its way to the client.
LoginAnswered(r) == r.op = "login" /\ r.pc = "done"

\* C15: a login rejected for an unknown email, for a wrong password or for an
\* inactive account gets status 401 and one and the same message, so the response
\* does not tell whether the account exists.
C15_LoginFailuresAlike ==
    \A s \in Slots :
        (LoginAnswered(req[s]) /\ req[s].status # 204) =>
            /\ req[s].status = 401
            /\ req[s].message = "Invalid credentials or account is unavailable"

\* A login with an email nobody registered has been rejected.
C15_Witness ==
    \E s \in Slots :
        /\ LoginAnswered(req[s])
        /\ UserByEmail(req[s].username) = "none"
        /\ req[s].status = 401

\* The row of the submitted email exists, the password verifies against its hash and
\* the account is active.
CredentialsGood(r) ==
    LET u == UserByEmail(r.username)
    IN /\ u # "none"
       /\ users[u].exists
       /\ get_password_hash(r.password) = users[u].password
       /\ users[u].is_active

\* C16: login answers 204 with an access_token and a refresh_token cookie exactly when
\* the email exists, the password verifies and the account is active; otherwise it
\* answers 401 and sets no cookie.
C16_LoginOutcome ==
    \A s \in Slots :
        LoginAnswered(req[s]) =>
            IF CredentialsGood(req[s])
            THEN /\ req[s].status = 204
                 /\ req[s].out_access.kind = "access"
                 /\ req[s].out_refresh.kind = "refresh"
                 /\ req[s].out_access.sub = UserByEmail(req[s].username)
                 /\ req[s].out_refresh.sub = UserByEmail(req[s].username)
            ELSE /\ req[s].status = 401
                 /\ req[s].out_access = NoToken
                 /\ req[s].out_refresh = NoToken

\* A login with the right password for a deactivated account has been rejected.
C16_Witness ==
    \E s \in Slots :
        /\ LoginAnswered(req[s])
        /\ UserByEmail(req[s].username) # "none"
        /\ users[UserByEmail(req[s].username)].exists
        /\ get_password_hash(req[s].password) = users[UserByEmail(req[s].username)].password
        /\ ~users[UserByEmail(req[s].username)].is_active
        /\ req[s].status = 401

\* The operations that change a row of the user table.
MutatingOps == {"update_pwd", "assign_role", "revoke_role", "update_user", "delete_user"}

\* C11: an operation that has mutated an identity (password update, role assignment,
\* role revocation, administrative update, deletion) has called invalidate_user_cache
\* exactly once, with the id of the row it wrote, by the time the request is over; an
\* operation that ends in 401, 403, 404 or 409 has not called it, and no such
\* operation ever calls it twice.
C11_InvalidateOncePerMutation ==
    \A s \in Slots :
        /\ (req[s].op \in MutatingOps /\ req[s].pc = "done" /\ req[s].status \in {200, 204}) =>
              /\ req[s].write # NoWrite
              /\ req[s].inv_calls = 1
              /\ req[s].inv_id = req[s].write.target
        /\ (req[s].op \in MutatingOps /\ req[s].status \in {401, 403, 404, 409}) =>
              req[s].inv_calls = 0
        /\ req[s].op \in MutatingOps => req[s].inv_calls <= 1

\* A role revocation has succeeded and its request is over.
C11_Witness ==
    \E s \in Slots :
        /\ req[s].op = "revoke_role"
        /\ req[s].pc = "done"
        /\ req[s].status = 200
        /\ users[req[s].write.target].role_slug = DEFAULT_USER_ROLE_SLUG

\* The endpoints guarded by superuser_required that change or delete an account, and
\* the account a request to one of them is aimed at.
CriticalOps == {"assign_role", "revoke_role", "update_user", "delete_user"}
TargetOf(r) == IF r.op \in {"assign_role", "revoke_role"} THEN UserByEmail(r.username)
               ELSE r.target
Protected(r) ==
    /\ TargetOf(r) # "none"
    /\ TargetOf(r) = r.user_auth.id \/ users[TargetOf(r)].email = DEFAULT_ADMIN_EMAIL

\* The handler of slot s runs for a superuser who aims at their own account or at the
\* system administrator: it answers 403 and leaves the user table and Redis alone.
ProtectedTargetRefused(s) ==
    (/\ req[s].pc = "guard"
     /\ req[s].op \in CriticalOps
     /\ req'[s].entered
     /\ Protected(req[s]))
        => /\ req'[s].status = 403
           /\ req'[s].pc = "done"
           /\ req'[s].write = NoWrite
           /\ req'[s].inv_calls = 0
           /\ req'[s].bg = {}
           /\ UNCHANGED <<users, redis>>

\* C12: a superuser's role assignment, role revocation, update or deletion aimed at
\* the caller's own account or at the account with DEFAULT_ADMIN_EMAIL is answered
\* 403 by a handler that changes neither the user table nor the identity cache nor the
\* revocation ledger; and the system administrator's row keeps its role, is_active
\* and is_superuser and is never deleted.
C12_CriticalTargetsUntouched ==
    /\ [][\A s \in Slots : ProtectedTargetRefused(s)]_vars
    /\ [](users["admin"] = SeedRow("admin"))

\* A superuser's request to delete the system administrator has been refused.
C12_Witness ==
    \E s \in Slots :
        /\ req[s].op = "delete_user"
        /\ req[s].target = "admin"
        /\ req[s].entered
        /\ req[s].status = 403

\* The request came without an access token that decodes: no cookie, or a token that
\* fails signature or exp validation.
NoValidAccessToken(r) == r.access = NoToken \/ r.access \notin issued \/ r.access.exp < now

\* C13: authentication failure and authorization failure are told apart.  A request to
\* a guarded endpoint without a valid access token is answered 401; a request whose
\* resolved identity is active but not a superuser is answered 403 by the endpoints
\* behind superuser_required; in both cases the handler body does not start.
\* trainer_required, which no endpoint uses, answers 403 exactly for an active
\* identity whose role_slug is not 'fitness-trainer'.
C13_UnauthenticatedVsForbidden ==
    \A s \in Slots :
        /\ (req[s].op \in CriticalOps \cup {"profile", "logout", "update_pwd"}
            /\ Responded(req[s]) /\ NoValidAccessToken(req[s])) =>
               (req[s].status = 401 /\ ~req[s].entered)
        /\ (req[s].op \in CriticalOps /\ Responded(req[s])
            /\ req[s].user_auth # NoAuth /\ req[s].user_auth.is_active
            /\ ~req[s].user_auth.is_superuser) =>
               (req[s].status = 403 /\ ~req[s].entered)
        /\ req[s].user_auth # NoAuth =>
               /\ (trainer_required(req[s].user_auth) = 403) =
                     (req[s].user_auth.is_active
                      /\ req[s].user_auth.role_slug # FITNESS_TRAINER_ROLE_SLUG)
               /\ (trainer_required(req[s].user_auth) = 401) = ~req[s].user_auth.is_active

\* An ordinary active user's request to delete an account has been answered.
C13_Witness ==
    \E s \in Slots :
        /\ req[s].op = "delete_user"
        /\ req[s].pc = "done"
        /\ req[s].user_auth.id = "u1"
        /\ req[s].user_auth.is_active
        /\ req[s].status = 403

\* The cookie the first dependency of the endpoint reads, and the cookies the endpoint
\* needs in all: logout reads access_token (get_current_active_user) and then
\* refresh_token (get_refresh_jti).
FirstCookieAbsent(r) ==
    \/ r.op = "refresh" /\ r.refresh = NoToken
    \/ r.op \in {"profile", "update_pwd", "logout"} /\ r.access = NoToken
ExpectedCookieAbsent(r) ==
    \/ FirstCookieAbsent(r)
    \/ r.op = "logout" /\ r.refresh = NoToken

\* Nothing was decoded and neither the ledger nor the cache nor the table was read.
NothingResolved(r) ==
    /\ r.payload = NoToken
    /\ r.refresh_jti = "none"
    /\ r.user_auth = NoAuth
    /\ ~r.cache_hit

\* C17 as stated: a request to refresh, logout, password update or profile with an
\* expected cookie absent is rejected 401 at the extraction step, before any decoding,
\* ledger lookup, cache lookup or user-store access.
C17_AbsentCookieRejectedFirst ==
    \A s \in Slots :
        (Responded(req[s]) /\ ExpectedCookieAbsent(req[s])) =>
            /\ req[s].status = 401
            /\ ~req[s].entered
            /\ NothingResolved(req[s])

\* C17 amended: such a request is always rejected 401 with the extraction step's
\* answer and its handler never starts; nothing has been decoded or looked up when the
\* absent cookie is the one the endpoint's first dependency reads.  A logout that
\* brings access_token without refresh_token is rejected only after the access token
\* has gone through the pipeline.
C17_AbsentCookieRejected ==
    \A s \in Slots :
        (Responded(req[s]) /\ ExpectedCookieAbsent(req[s])) =>
            /\ req[s].status = 401
            /\ ~req[s].entered
            /\ req[s].out_access = NoToken /\ req[s].out_refresh = NoToken
            /\ FirstCookieAbsent(req[s]) =>
                  (NothingResolved(req[s]) /\ req[s].message = "Not authenticated")
            /\ (req[s].user_auth # NoAuth /\ req[s].user_auth.is_active) =>
                  req[s].message = "Not authenticated"

\* A logout with an access cookie and no refresh cookie has been rejected after the
\* caller's identity was resolved.
C17_Witness ==
    \E s \in Slots :
        /\ req[s].op = "logout"
        /\ req[s].pc = "done"
        /\ req[s].access # NoToken
        /\ req[s].refresh = NoToken
        /\ req[s].user_auth.is_active
        /\ req[s].status = 401

\* The password update of slot s is about to run its handler for an active caller whose
\* row exists, with a current_password that is not the one the stored hash was made of.
WrongCurrentPassword(s) ==
    /\ req[s].pc = "guard"
    /\ req[s].op = "update_pwd"
    /\ req[s].user_auth.is_active
    /\ users[req[s].user_auth.id].exists
    /\ get_password_hash(req[s].password) # users[req[s].user_auth.id].password

\* C23: a password update whose current_password does not verify against the stored
\* hash is answered 401 and changes nothing: the user table (the stored hash with it)
\* is untouched, no invalidation is scheduled or made, and no cookie is cleared.
C23_WrongPasswordChangesNothing ==
    [][\A s \in Slots :
          (WrongCurrentPassword(s) /\ req'[s] # req[s]) =>
              /\ req'[s].status = 401
              /\ req'[s].pc = "done"
              /\ req'[s].write = NoWrite
              /\ req'[s].bg = {}
              /\ req'[s].inv_calls = 0
              /\ ~req'[s].cleared
              /\ UNCHANGED <<users, redis, jar>>]_vars

\* A password update with a wrong current_password has been refused by its handler.
C23_Witness ==
    \E s \in Slots :
        /\ req[s].op = "update_pwd"
        /\ req[s].pc = "done"
        /\ req[s].entered
        /\ get_password_hash(req[s].password) # users[req[s].user_auth.id].password
        /\ req[s].status = 401

\* A password update of the account has been committed: the stored hash is no longer
\* the one the row was created with.
PasswordChanged(u) ==
    u \in UserIds /\ users[u].exists /\ users[u].password # SeedRow(u).password

\* C24: once a password update has been committed, a login to that (active) account
\* succeeds with the new password and is answered 401 with the old one: the login's
\* credential check reads the hash stored in the table.
C24_LoginFollowsStoredHash ==
    \A s \in Slots :
        LET u == UserByEmail(req[s].username)
        IN (LoginAnswered(req[s]) /\ u # "none" /\ PasswordChanged(u) /\ users[u].is_active) =>
              /\ get_password_hash(req[s].password) = users[u].password => req[s].status = 204
              /\ get_password_hash(req[s].password) = SeedRow(u).password => req[s].status = 401

\* A login with the new password has succeeded after a password update.
C24_Witness ==
    \E s \in Slots :
        /\ LoginAnswered(req[s])
        /\ PasswordChanged(UserByEmail(req[s].username))
        /\ get_password_hash(req[s].password) = users[UserByEmail(req[s].username)].password
        /\ req[s].status = 204

\* C30: the jti a successful refresh schedules for revocation, and the jti its
\* background task writes to the ledger, is the jti of the refresh token that request
\* presented, also when another refresh of the same subject runs in the other slot and
\* both took the projection from the shared cache entry.
C30_RevokesPresentedJti ==
    [][\A s \in Slots :
          /\ (req'[s].op = "refresh" /\ req'[s].status = 204) =>
                req'[s].refresh_jti = req'[s].refresh.jti
          /\ (req[s].op = "refresh" /\ req[s].pc = "background" /\ req'[s].pc = "done") =>
                /\ Exists(redis', LedgerKey(req[s].refresh.jti))
                /\ DOMAIN redis' \ DOMAIN redis \subseteq {LedgerKey(req[s].refresh.jti)}]_vars

\* Two refresh requests of the same subject, with different tokens, have both been
\* answered 204 from the cached projection and are waiting for their revocations.
C30_Witness ==
    /\ \A s \in Slots : /\ req[s].op = "refresh"
                        /\ req[s].pc = "background"
                        /\ req[s].cache_hit
    /\ req[1].refresh.sub = req[2].refresh.sub
    /\ req[1].refresh.jti # req[2].refresh.jti

\* The role handler of slot s is about to run for a superuser, on an existing active
\* target that is neither the caller nor the system administrator.
RoleHandlerRuns(s, op) ==
    /\ req[s].pc = "guard"
    /\ req[s].op = op
    /\ req'[s].entered
    /\ TargetOf(req[s]) # "none"
    /\ users[TargetOf(req[s])].exists
    /\ users[TargetOf(req[s])].is_active
    /\ ~Protected(req[s])

\* The transaction of slot s commits the role it wrote.
RoleCommitted(s, op) ==
    /\ req[s].pc = "commit"
    /\ req[s].op = op
    /\ req'[s].pc # "commit"

SuccessStatus(op) == IF op \in {"assign_role", "revoke_role", "update_user"} THEN 200 ELSE 204

\* C21: a Redis failure during the cache invalidation or the ledger revocation that a
\* logout, refresh, password update, role assignment, role revocation, user update or
\* user deletion triggers does not change the response of that request: the request is
\* answered as if the call had succeeded.
C21_StoreFailureKeepsResponse ==
    \A s \in Slots :
        (req[s].fault \cap {"invalidate", "revoke"} # {}) =>
            req[s].status = SuccessStatus(req[s].op)

\* C22: a request whose blacklist check or cache lookup met a Redis error is rejected
\* as Unauthorized: it is answered 401, its handler does not receive an identity and no
\* token is issued.
C22_FailClosed ==
    \A s \in Slots :
        (Responded(req[s]) /\ req[s].fault \cap {"blacklist", "cache_get"} # {}) =>
            /\ req[s].status = 401
            /\ ~req[s].entered
            /\ req[s].out_access = NoToken
            /\ req[s].out_refresh = NoToken

\* C29: a refresh token authenticates nothing outside the refresh path: a request that
\* carries a refresh token, revoked or not, in the access_token cookie is answered 401
\* and its handler does not run.
C29_RefreshTokenNotAnAccessToken ==
    \A s \in Slots :
        (Responded(req[s]) /\ req[s].op # "refresh" /\ req[s].access.kind = "refresh"
         /\ req[s].fault = {}) =>
            /\ req[s].status = 401
            /\ ~req[s].entered

\* The values the password column can hold, and the fields of a projection that carry text.
HashValues == {get_password_hash(p) : p \in Passwords}
TextFields == {"id", "email", "role_name", "role_slug"}
HashFree(rec) ==
    /\ "password" \notin DOMAIN rec
    /\ \A f \in TextFields \cap DOMAIN rec : rec[f] \notin HashValues

\* C27: the credential hash stays in the user store: the identity projection a request
\* carries, every projection stored in the identity cache, and every response of signup,
\* user create, user update and profile is without a password field and without a hash
\* in any of its fields, and no error detail is a hash.
C27_HashNeverLeaves ==
    /\ \A s \in Slots :
          /\ HashFree(req[s].user_auth)
          /\ HashFree(req[s].body)
          /\ req[s].message \notin HashValues
    /\ \A k \in DOMAIN redis : k[1] = "user_auth" => HashFree(redis[k].value)

\* A registration answered 201 whose row holds a hash while its response does not, with
\* a projection in the identity cache.
C27_Witness ==
    \E s \in Slots :
        /\ req[s].op = "signup"
        /\ req[s].pc = "done"
        /\ req[s].status = 201
        /\ req[s].body.email = req[s].email
        /\ users[req[s].target].password \in HashValues
        /\ \E k \in DOMAIN redis : k[1] = "user_auth"

\* The accounts of the store carry pairwise different emails.
EmailsUnique ==
    \A u, v \in DOMAIN users :
        (u # v /\ users[u].exists /\ users[v].exists) => users[u].email # users[v].email

\* The handler of slot s runs in this step for a request that names an email which an
\* account other than its target holds.
WritesHeldEmail(s) ==
    /\ req'[s].op \in {"signup", "create_user", "update_user"}
    /\ req'[s].email # "none"
    /\ ~req[s].entered /\ req'[s].entered
    /\ req'[s].op = "update_user" =>
          (users[req[s].target].exists /\ req'[s].status # 403)
    /\ \E v \in DOMAIN users :
          /\ users[v].exists
          /\ users[v].email = req'[s].email
          /\ req'[s].op = "update_user" => v # req[s].target

\* C28: a signup, a user create or an email update that names an email held by another
\* account is answered 409 without a write and leaves the user store as it was, and no
\* two accounts ever share an email.
C28_EmailStaysUnique ==
    /\ []EmailsUnique
    /\ [][\A s \in Slots :
            WritesHeldEmail(s) =>
                /\ req'[s].status = 409
                /\ req'[s].pc = "done"
                /\ req'[s].write = NoWrite
                /\ users' = users]_vars

\* An email update refused with 409 because an account created earlier holds the email.
C28_Witness ==
    \E s \in Slots :
        /\ req[s].op = "update_user"
        /\ req[s].pc = "done"
        /\ req[s].status = 409
        /\ req[s].email = "new@example.com"
        /\ \E n \in NewIds : users[n].exists /\ users[n].email = req[s].email
        /\ users["u1"].email = EmailOf("u1")

\* C36: every token encode_jwt has issued carries an exp claim later than its iat claim,
\* whatever access lifetime in minutes and refresh lifetime in days are configured,
\* zero included.
C36_ExpiryAfterIssue == \A t \in issued : t.exp > t.iat

\* The number of times a request has made the named call.
Calls(r, call) == Cardinality({i \in DOMAIN r.steps : r.steps[i] = call})

\* C37: a login that is refused has invoked the credential verifier exactly once,
\* whether the email is unknown or the password is wrong, so the two refusals follow
\* the same sequence of calls.
C37_LoginSameCodePath ==
    \A s \in Slots :
        (LoginAnswered(req[s]) /\ req[s].status = 401) =>
            /\ Calls(req[s], "verify_password") = 1
            /\ req[s].steps = <<"get_one_or_none", "verify_password">>

\* The calls of get_current_user_for_refresh in the order of auth.py 143-156; the last
\* two are made on a cache miss only.
RefreshPipeline == <<"extract", "decode", "blacklist", "cache_get", "db_load", "cache_set">>

\* C31: the calls made for a refresh request are an initial part of extract, decode,
\* blacklist check, cache read, store read, cache write; the active check is reached
\* only after the identity was loaded; and a request whose token does not decode or
\* whose jti is in the ledger is answered 401 having made no cache read, no store read
\* and no cache write.
C31_RefreshPipelineOrder ==
    \A s \in Slots :
        req[s].op = "refresh" =>
            /\ Len(req[s].steps) <= Len(RefreshPipeline)
            /\ req[s].steps = SubSeq(RefreshPipeline, 1, Len(req[s].steps))
            /\ (req[s].pc = "guard" \/ req[s].entered) =>
                  /\ Calls(req[s], "blacklist") = 1
                  /\ Calls(req[s], "cache_get") = 1
                  /\ req[s].user_auth # NoAuth
            /\ (req[s].message = "Invalid or expired token" \/ req[s].token_exists) =>
                  /\ req[s].status = 401
                  /\ \A c \in {"cache_get", "db_load", "cache_set"} : Calls(req[s], c) = 0
                  /\ req[s].user_auth = NoAuth

\* A refresh request refused at the blacklist check.
C31_Witness ==
    \E s \in Slots :
        /\ req[s].op = "refresh"
        /\ req[s].pc = "done"
        /\ req[s].token_exists
        /\ req[s].status = 401
        /\ req[s].steps = <<"extract", "decode", "blacklist">>

\* C32: a request that authentication has refused (its handler body never started) has
\* written nothing: no entry of the identity cache, no record of the ledger, no row.
C32_RejectedLeavesNoTrace ==
    \A s \in Slots :
        AuthRejected(req[s]) =>
            /\ Calls(req[s], "cache_set") = 0
            /\ req[s].write = NoWrite
            /\ req[s].bg = {}

\* What the calls recorded for a request say about the identity it was given.
LoadedAsRecorded(r) ==
    /\ r.cache_hit => (Calls(r, "db_load") = 0 /\ Calls(r, "cache_set") = 0)
    /\ (r.user_auth # NoAuth /\ ~r.cache_hit) => Calls(r, "db_load") = 1
    /\ Calls(r, "db_load") <= 1
    /\ r.message = "Invalid authentication credentials" =>
          /\ r.status = 401
          /\ Calls(r, "db_load") = 1
          /\ Calls(r, "cache_set") = 0

\* Slot s reads the cache and finds the entry in this step.
HitStep(s) == req'[s].cache_hit /\ ~req[s].cache_hit

\* C33: on a cache hit the request gets the stored projection and the user store is
\* not called; on a miss the store is called once, and what it returned is stored under
\* the key of the token's subject with a time to live of 30 minutes and handed on; a
\* subject without a row is answered 401 and nothing is stored.
C33_CacheAsideLoad ==
    /\ [](\A s \in Slots : LoadedAsRecorded(req[s]))
    /\ [][\A s \in Slots :
            /\ HitStep(s) =>
                  /\ req'[s].user_auth = redis[<<"user_auth", req[s].payload.sub>>].value
                  /\ redis' = redis
            /\ Calls(req'[s], "cache_set") = Calls(req[s], "cache_set") + 1 =>
                  /\ DOMAIN redis' = DOMAIN redis \cup {<<"user_auth", req[s].payload.sub>>}
                  /\ redis'[<<"user_auth", req[s].payload.sub>>] =
                        [value |-> req[s].user_auth, expire_at |-> now + 30 * 60]
                  /\ \A k \in DOMAIN redis \ {<<"user_auth", req[s].payload.sub>>} :
                        redis'[k] = redis[k]
                  /\ req'[s].user_auth = req[s].user_auth
                  /\ req'[s].user_auth.id = req[s].payload.sub]_vars

\* A request whose subject has no row, refused after one call of the store, next to a
\* cached projection of another subject.
C33_Witness ==
    \E s \in Slots :
        /\ req[s].message = "Invalid authentication credentials"
        /\ req[s].pc = "done"
        /\ ~users[req[s].payload.sub].exists
        /\ <<"user_auth", req[s].payload.sub>> \notin DOMAIN redis
        /\ \E k \in DOMAIN redis : k[1] = "user_auth" /\ redis[k].value.id = k[2]

\* C34: a request that presents an unexpired access or refresh token of a subject whose
\* deletion had been committed when the request arrived is answered 401.
C34_DeletedSubjectRejected ==
    \A s \in Slots :
        (req[s].after_delete /\ Responded(req[s])) => req[s].status = 401

\* The projection a request was given shows the promotion.
ShowsPromotion(r) ==
    r.user_auth.is_superuser /\ r.user_auth.role_slug = "superuser"

LedgerKeys(r) == {k \in DOMAIN r : k[1] = "revoked"}

\* C38: a revocation record stays in Redis, with a time to live no shorter than before,
\* until the clock has reached its expiry, whatever request, background task or
\* invalidation runs; and no key an invalidation deletes or the identity cache writes
\* is a ledger key.
C38_LedgerRecordsKept ==
    /\ [](\A j \in 1..Len(JtiNames), u \in UserIds \cup NewIds :
            /\ LedgerKey(JtiNames[j]) # CacheKey(u)
            /\ LedgerKey(JtiNames[j]) # InvalidateKey(u))
    /\ [][\A k \in LedgerKeys(redis) :
            \/ now' >= redis[k].expire_at
            \/ /\ k \in DOMAIN redis'
               /\ redis'[k].expire_at >= redis[k].expire_at]_vars

\* A logout both of whose background tasks have run: the cache invalidation was called
\* and the record of the refresh token is in the ledger.
C38_Witness ==
    \E s \in Slots :
        /\ req[s].op = "logout"
        /\ req[s].pc = "done"
        /\ req[s].inv_calls = 1
        /\ LedgerKey(req[s].refresh_jti) \in LedgerKeys(redis)

\* C39: a request whose projection is inactive and lacks the privilege the guard asks
\* for is answered 401 without its handler running, by the superuser guard of every
\* endpoint that has one, and trainer_required gives 401 for every inactive projection
\* without the trainer role.
C39_ActiveCheckedFirst ==
    \A s \in Slots :
        (req[s].user_auth # NoAuth /\ ~req[s].user_auth.is_active) =>
            /\ (req[s].op \in CriticalOps /\ Responded(req[s])
                /\ ~req[s].user_auth.is_superuser) =>
                   (req[s].status = 401 /\ ~req[s].entered)
            /\ ~req[s].user_auth.is_superuser => superuser_required(req[s].user_auth) = 401
            /\ req[s].user_auth.role_slug # FITNESS_TRAINER_ROLE_SLUG =>
                   trainer_required(req[s].user_auth) = 401

\* A deactivated ordinary user's request to a superuser endpoint has been answered 401.
C39_Witness ==
    \E s \in Slots :
        /\ req[s].op \in CriticalOps
        /\ req[s].pc = "done"
        /\ req[s].user_auth.id = "u1"
        /\ ~req[s].user_auth.is_active
        /\ ~req[s].user_auth.is_superuser
        /\ req[s].user_auth.role_slug # FITNESS_TRAINER_ROLE_SLUG
        /\ req[s].status = 401

\* C40: the commit of a role assignment or revocation leaves is_superuser and is_active
\* of the target, and every other row, as they were; so u1 never becomes a superuser
\* by a change of role, and a request of an active account whose role is 'superuser'
\* and whose is_superuser is false is answered 403 by superuser_required.
C40_RoleChangeKeepsFlags ==
    /\ [](~users["u1"].is_superuser)
    /\ [](\A s \in Slots :
            (/\ req[s].op \in CriticalOps /\ Responded(req[s])
             /\ req[s].user_auth # NoAuth /\ req[s].user_auth.is_active
             /\ req[s].user_auth.role_slug = "superuser"
             /\ ~req[s].user_auth.is_superuser) =>
                (req[s].status = 403 /\ ~req[s].entered))
    /\ [][\A s \in Slots :
            (req[s].op \in {"assign_role", "revoke_role"} /\ req[s].pc = "commit"
             /\ req'[s].pc # "commit") =>
                /\ users'[req[s].write.target].is_superuser =
                      users[req[s].write.target].is_superuser
                /\ users'[req[s].write.target].is_active =
                      users[req[s].write.target].is_active
                /\ users'[req[s].write.target].role_slug = req[s].write.text
                /\ \A u \in DOMAIN users \ {req[s].write.target} : users'[u] = users[u]]_vars

\* u1 holds the role 'superuser' by assignment, and its own request to a superuser
\* endpoint, authenticated from the store, has been answered 403.
C40_Witness ==
    \E s \in Slots :
        /\ req[s].op \in {"assign_role", "revoke_role"}
        /\ req[s].pc = "done"
        /\ req[s].client = "u1"
        /\ ~req[s].cache_hit
        /\ req[s].user_auth.role_slug = "superuser"
        /\ users["u1"].role_slug = "superuser"
        /\ ~users["u1"].is_superuser
        /\ req[s].status = 403

====
